---- MODULE Spec2Model ----
(***************************************************************************)
(* A model of imap-mail-mcp: the cursor/pagination helpers of src/query.ts *)
(* and the paged mailbox operations of src/imap.ts.                        *)
(*                                                                         *)
(* Text is modelled as it is stored: a cursor is a sequence of base64url   *)
(* characters, the decoded buffer a sequence of byte values (ASCII), and   *)
(* Number(...) is the StringToNumber grammar over those bytes.             *)
(***************************************************************************)
EXTENDS Integers, Sequences, FiniteSets, TLC

(***************************************************************************)
(* Bounds of the model.                                                    *)
(***************************************************************************)
\* largest uid a store message can carry
MaxUid == 3
\* longest list of uids a store search returns
MaxLen == 3
\* longest caller-supplied cursor payload enumerated over CursorAlphabet
MaxTextLen == 2

(***************************************************************************)
(* Program constants.                                                      *)
(***************************************************************************)
\* clampLimit: fallback when defaultLimit is not finite
HardFallbackLimit == 50
\* clampLimit: cap when maxResults is not finite
HardFallbackCap == 200
\* paginateUids: input.maxResults ?? 200
PaginateDefaultMax == 200
\* paginateUids: clampLimit(..., 50)
PaginateDefaultLimit == 50

(***************************************************************************)
(* JavaScript values.  A number is n/d (d > 0) so that fractional input    *)
(* and Math.floor can be told apart; undefined, NaN and Infinity are       *)
(* separate values.                                                        *)
(***************************************************************************)
Undefined == [t |-> "undef", n |-> 0, d |-> 1]
NaNValue == [t |-> "nan", n |-> 0, d |-> 1]
InfValue == [t |-> "inf", n |-> 0, d |-> 1]
JsNum(n) == [t |-> "num", n |-> n, d |-> 1]
JsFrac(n, d) == [t |-> "num", n |-> n, d |-> d]
\* a value that is no number: the string of a number
JsString(n) == [t |-> "str", n |-> n, d |-> 1]

\* typeof v === "number"
TypeofNumber(v) == v.t \in {"num", "nan", "inf"}
\* Number.isFinite(v)
IsFinite(v) == v.t = "num"
\* Math.floor(v), v finite
Floor(v) == v.n \div v.d
\* Number.isInteger(v)
IsInteger(v) == v.t = "num" /\ v.n % v.d = 0

\* F applied to the value of v, with v evaluated once
With(v, F(_)) == CHOOSE r \in {F(x) : x \in {v}} : TRUE

Max(a, b) == IF a >= b THEN a ELSE b
Min(a, b) == IF a <= b THEN a ELSE b

(***************************************************************************)
(* Array helpers.                                                          *)
(***************************************************************************)
RECURSIVE Dedup(_)
\* Array.from(new Set(arr)): first occurrences, in insertion order
Dedup(arr) ==
  With(arr, LAMBDA a :
    IF a = <<>> THEN <<>>
    ELSE With(Dedup(SubSeq(a, 1, Len(a) - 1)), LAMBDA r :
           IF \E i \in 1..Len(r) : r[i] = a[Len(a)]
           THEN r ELSE Append(r, a[Len(a)])))

RECURSIVE InsertAsc(_, _)
InsertAsc(sorted, x) ==
  With(sorted, LAMBDA s :
    IF s = <<>> THEN <<x>>
    ELSE IF x - s[1] < 0 THEN <<x>> \o s
    ELSE <<s[1]>> \o InsertAsc(Tail(s), x))

RECURSIVE SortAsc(_)
\* arr.sort((a, b) => a - b)
SortAsc(arr) ==
  With(arr, LAMBDA a :
    IF a = <<>> THEN <<>>
    ELSE InsertAsc(SortAsc(SubSeq(a, 1, Len(a) - 1)), a[Len(a)]))

\* arr.slice().reverse()
Reverse(arr) ==
  With(arr, LAMBDA a : [i \in 1..Len(a) |-> a[Len(a) + 1 - i]])

\* arr.slice(0, n), n >= 0
SliceTo(arr, n) == With(arr, LAMBDA a : SubSeq(a, 1, Min(n, Len(a))))

Range(arr) == With(arr, LAMBDA a : {a[i] : i \in 1..Len(a)})

(***************************************************************************)
(* query.ts: normalizeSort, clampLimit                                     *)
(***************************************************************************)
normalizeSort(sort) == IF sort = "asc" THEN "asc" ELSE "desc"

\* clampLimit without the lower bound of 1 on the requested value
clampLimitUnraised(value, maxResults, defaultLimit) ==
  LET fallback == IF IsFinite(defaultLimit) THEN Max(1, Floor(defaultLimit))
                  ELSE HardFallbackLimit
      cap == IF IsFinite(maxResults) THEN Max(1, Floor(maxResults))
             ELSE HardFallbackCap
      normalized == IF TypeofNumber(value) /\ IsFinite(value)
                    THEN Floor(value)
                    ELSE fallback
  IN Min(normalized, cap)

clampLimit(value, maxResults, defaultLimit) ==
  LET fallback == IF IsFinite(defaultLimit) THEN Max(1, Floor(defaultLimit))
                  ELSE HardFallbackLimit
      cap == IF IsFinite(maxResults) THEN Max(1, Floor(maxResults))
             ELSE HardFallbackCap
      normalized == IF TypeofNumber(value) /\ IsFinite(value)
                    THEN Max(1, Floor(value))
                    ELSE fallback
  IN Min(normalized, cap)

(***************************************************************************)
(* Buffer and base64url.  A cursor is a sequence of one-character strings  *)
(* of the base64url alphabet; a buffer is a sequence of bytes.             *)
(***************************************************************************)
B64Chars ==
  << "A", "B", "C", "D", "E", "F", "G", "H", "I", "J", "K", "L", "M",
     "N", "O", "P", "Q", "R", "S", "T", "U", "V", "W", "X", "Y", "Z",
     "a", "b", "c", "d", "e", "f", "g", "h", "i", "j", "k", "l", "m",
     "n", "o", "p", "q", "r", "s", "t", "u", "v", "w", "x", "y", "z",
     "0", "1", "2", "3", "4", "5", "6", "7", "8", "9", "-", "_" >>

\* the 6-bit value of each character
SextetTable ==
  [c \in {B64Chars[i] : i \in 1..64} |-> CHOOSE i \in 0..63 : B64Chars[i + 1] = c]

SextetOf(c) == SextetTable[c]

RECURSIVE B64Sextets(_)
\* the 6-bit groups of a buffer, most significant first, without padding
B64Sextets(buffer) ==
  With(buffer, LAMBDA bytes :
    IF Len(bytes) = 0 THEN <<>>
    ELSE IF Len(bytes) = 1 THEN
      << bytes[1] \div 4, (bytes[1] % 4) * 16 >>
    ELSE IF Len(bytes) = 2 THEN
      << bytes[1] \div 4,
         (bytes[1] % 4) * 16 + (bytes[2] \div 16),
         (bytes[2] % 16) * 4 >>
    ELSE
      << bytes[1] \div 4,
         (bytes[1] % 4) * 16 + (bytes[2] \div 16),
         (bytes[2] % 16) * 4 + (bytes[3] \div 64),
         bytes[3] % 64 >> \o B64Sextets(SubSeq(bytes, 4, Len(bytes))))

\* Buffer.toString("base64url")
ToBase64Url(bytes) ==
  With(B64Sextets(bytes), LAMBDA s : [i \in 1..Len(s) |-> B64Chars[s[i] + 1]])

RECURSIVE B64Bytes(_)
\* bytes of a run of sextets; a dangling single sextet carries no byte
B64Bytes(sextets) ==
  With(sextets, LAMBDA s :
    IF Len(s) <= 1 THEN <<>>
    ELSE IF Len(s) = 2 THEN
      << s[1] * 4 + (s[2] \div 16) >>
    ELSE IF Len(s) = 3 THEN
      << s[1] * 4 + (s[2] \div 16),
         (s[2] % 16) * 16 + (s[3] \div 4) >>
    ELSE
      << s[1] * 4 + (s[2] \div 16),
         (s[2] % 16) * 16 + (s[3] \div 4),
         (s[3] % 4) * 64 + s[4] >> \o B64Bytes(SubSeq(s, 5, Len(s))))

\* mutant of FromBase64Url: an unpadded final group is dropped
FromBase64UrlWholeGroups(text) ==
  With(text, LAMBDA tx :
    B64Bytes([i \in 1..(4 * (Len(tx) \div 4)) |-> SextetOf(tx[i])]))

\* Buffer.from(text, "base64url")
FromBase64Url(text) ==
  With(text, LAMBDA tx : B64Bytes([i \in 1..Len(tx) |-> SextetOf(tx[i])]))

(***************************************************************************)
(* String(uid) and Number(text) over ASCII bytes.                          *)
(***************************************************************************)
RECURSIVE DecimalDigits(_)
DecimalDigits(n) ==
  IF n < 10 THEN <<n>> ELSE Append(DecimalDigits(n \div 10), n % 10)

\* String(uid) as utf8 bytes, uid a non-negative integer below 1e21
NumberToString(uid) ==
  With(DecimalDigits(uid), LAMBDA ds : [i \in 1..Len(ds) |-> 48 + ds[i]])

IsWhite(b) == b \in {9, 10, 11, 12, 13, 32}
IsDigit(b) == b >= 48 /\ b <= 57

RECURSIVE TrimLeft(_)
TrimLeft(text) ==
  With(text, LAMBDA s :
    IF s # <<>> /\ IsWhite(s[1]) THEN TrimLeft(Tail(s)) ELSE s)

\* String.prototype.trim
Trim(s) == Reverse(TrimLeft(Reverse(TrimLeft(s))))

\* value of a digit character in a radix, or -1
DigitIn(b, radix) ==
  LET v == IF IsDigit(b) THEN b - 48
           ELSE IF b >= 97 /\ b <= 102 THEN b - 87
           ELSE IF b >= 65 /\ b <= 70 THEN b - 55
           ELSE -1
  IN IF v >= 0 /\ v < radix THEN v ELSE -1

AllDigits(digits, radix) ==
  \E s \in {digits} : \A i \in 1..Len(s) : DigitIn(s[i], radix) >= 0

RECURSIVE DigitsValue(_, _)
DigitsValue(digits, radix) ==
  With(digits, LAMBDA s :
    IF s = <<>> THEN 0
    ELSE DigitsValue(SubSeq(s, 1, Len(s) - 1), radix) * radix
         + DigitIn(s[Len(s)], radix))

RECURSIVE Pow10(_)
Pow10(k) == IF k <= 0 THEN 1 ELSE 10 * Pow10(k - 1)

\* index of the first element of s in set, or 0
FirstIn(text, set) ==
  With(text, LAMBDA s :
    IF \E i \in 1..Len(s) : s[i] \in set
    THEN CHOOSE i \in 1..Len(s) :
           s[i] \in set /\ \A j \in 1..(i - 1) : s[j] \notin set
    ELSE 0)

InfinityText == <<73, 110, 102, 105, 110, 105, 116, 121>>

\* mantissa digits ip.fp with exponent e: the value ip.fp * 10^e
DecimalValue(ip, fp, e) ==
  IF e - Len(fp) >= 0
  THEN JsNum(DigitsValue(ip \o fp, 10) * Pow10(e - Len(fp)))
  ELSE JsFrac(DigitsValue(ip \o fp, 10), Pow10(Len(fp) - e))

\* the mantissa: digits [. digits], with at least one digit
Mantissa(mant, e) ==
  With(FirstIn(mant, {46}), LAMBDA dot :
    With(IF dot = 0 THEN mant ELSE SubSeq(mant, 1, dot - 1), LAMBDA ip :
      With(IF dot = 0 THEN <<>> ELSE SubSeq(mant, dot + 1, Len(mant)), LAMBDA fp :
        IF AllDigits(ip, 10) /\ AllDigits(fp, 10) /\ Len(ip) + Len(fp) >= 1
        THEN DecimalValue(ip, fp, e)
        ELSE NaNValue)))

\* the exponent part after e/E: [sign] digits
Exponent(expo) ==
  With(IF expo # <<>> /\ expo[1] \in {43, 45} THEN Tail(expo) ELSE expo,
       LAMBDA eDig :
    IF eDig = <<>> \/ ~AllDigits(eDig, 10) THEN NaNValue
    ELSE IF expo[1] = 45 THEN JsNum(0 - DigitsValue(eDig, 10))
    ELSE JsNum(DigitsValue(eDig, 10)))

\* StrDecimalLiteral without sign: digits [. digits] [e [sign] digits]
UnsignedDecimal(text) ==
  With(text, LAMBDA s :
    With(FirstIn(s, {101, 69}), LAMBDA ePos :
      IF ePos = 0 THEN Mantissa(s, 0)
      ELSE With(Exponent(SubSeq(s, ePos + 1, Len(s))), LAMBDA e :
             IF e.t = "nan" THEN NaNValue
             ELSE Mantissa(SubSeq(s, 1, ePos - 1), e.n))))

Negate(value) ==
  With(value, LAMBDA v : IF v.t = "num" THEN [v EXCEPT !.n = 0 - v.n] ELSE v)

\* 16, 8 or 2 for a 0x, 0o or 0b prefix followed by something, else 10
RadixOf(s) ==
  IF Len(s) >= 3 /\ s[1] = 48
  THEN IF s[2] \in {120, 88} THEN 16
       ELSE IF s[2] \in {111, 79} THEN 8
       ELSE IF s[2] \in {98, 66} THEN 2
       ELSE 10
  ELSE 10

\* Number(text): the StringToNumber grammar
StringToNumber(text) ==
  With(Trim(text), LAMBDA s :
    IF s = <<>> THEN JsNum(0)
    ELSE IF RadixOf(s) # 10 THEN
      IF AllDigits(SubSeq(s, 3, Len(s)), RadixOf(s))
      THEN JsNum(DigitsValue(SubSeq(s, 3, Len(s)), RadixOf(s)))
      ELSE NaNValue
    ELSE IF s = InfinityText THEN InfValue
    ELSE IF s[1] = 43 THEN
      IF Tail(s) = InfinityText THEN InfValue ELSE UnsignedDecimal(Tail(s))
    ELSE IF s[1] = 45 THEN
      IF Tail(s) = InfinityText THEN InfValue
      ELSE Negate(UnsignedDecimal(Tail(s)))
    ELSE UnsignedDecimal(s))

(***************************************************************************)
(* query.ts: encodeCursor, decodeCursor                                    *)
(***************************************************************************)
InvalidCursorMessage == <<"Invalid", "cursor", "value">>

Thrown(msg) == [t |-> "throw", n |-> 0, d |-> 1, msg |-> msg]

encodeCursor(uid) == ToBase64Url(NumberToString(uid))

\* mutant of decodeCursor: the check n <= 0 is left out
decodeCursorAnyInteger(cursor) ==
  IF cursor = <<>> THEN Undefined
  ELSE With(Trim(FromBase64Url(cursor)), LAMBDA decoded :
         With(StringToNumber(decoded), LAMBDA n :
           IF ~IsInteger(n)
           THEN Thrown(InvalidCursorMessage)
           ELSE JsNum(Floor(n))))

\* the cursor argument is a string or undefined; both undefined and "" are
\* falsy and are the empty sequence here
decodeCursor(cursor) ==
  IF cursor = <<>> THEN Undefined
  ELSE With(Trim(FromBase64Url(cursor)), LAMBDA decoded :
         With(StringToNumber(decoded), LAMBDA n :
           IF ~IsInteger(n) \/ Floor(n) <= 0
           THEN Thrown(InvalidCursorMessage)
           ELSE JsNum(Floor(n))))

(***************************************************************************)
(* query.ts: paginateUids                                                  *)
(***************************************************************************)
\* mutant of UniqueAsc: the filter v > 0 is left out
UniqueAscUnfiltered(matchedUids) == SortAsc(Dedup(matchedUids))

\* line 58: Array.from(new Set(matchedUids)).filter(v => v > 0).sort(...)
UniqueAsc(matchedUids) ==
  With(Dedup(matchedUids), LAMBDA unique :
    SortAsc(SelectSeq(unique, LAMBDA v : v > 0)))

\* line 61: sort === "asc" ? uniqueAsc : uniqueAsc.slice().reverse()
OrderBy(uniqueAsc, sort) ==
  IF sort = "asc" THEN uniqueAsc ELSE Reverse(uniqueAsc)

\* mutant of PastCursor: the boundary itself is kept (>= and <=)
PastCursorInclusive(ordered, sort, cursorUid) ==
  IF cursorUid.t = "undef" THEN ordered
  ELSE IF sort = "asc"
       THEN With(ordered, LAMBDA o : SelectSeq(o, LAMBDA uid : uid >= cursorUid.n))
       ELSE With(ordered, LAMBDA o : SelectSeq(o, LAMBDA uid : uid <= cursorUid.n))

\* mutant of PastCursor: the direction is ignored (always uid > cursor)
PastCursorAscending(ordered, sort, cursorUid) ==
  IF cursorUid.t = "undef" THEN ordered
  ELSE With(ordered, LAMBDA o : SelectSeq(o, LAMBDA uid : uid > cursorUid.n))

\* lines 62-64: keep what lies strictly past the cursor uid
PastCursor(ordered, sort, cursorUid) ==
  IF cursorUid.t = "undef" THEN ordered
  ELSE IF sort = "asc"
       THEN With(ordered, LAMBDA o : SelectSeq(o, LAMBDA uid : uid > cursorUid.n))
       ELSE With(ordered, LAMBDA o : SelectSeq(o, LAMBDA uid : uid < cursorUid.n))

\* mutant of NextCursorOf: the cursor is made of the first uid of the page
NextCursorOfFirst(ordered, pageUids) ==
  IF Len(ordered) > Len(pageUids) /\ Len(pageUids) > 0
  THEN encodeCursor(pageUids[1])
  ELSE <<>>

\* mutant of NextCursorOf: a cursor for every page that is not empty
NextCursorOfNonEmpty(ordered, pageUids) ==
  IF Len(pageUids) > 0 THEN encodeCursor(pageUids[Len(pageUids)]) ELSE <<>>

\* mutant of NextCursorOf: hasMore is ordered.length >= pageUids.length
NextCursorOfFullPage(ordered, pageUids) ==
  IF Len(ordered) >= Len(pageUids) /\ Len(pageUids) > 0
  THEN encodeCursor(pageUids[Len(pageUids)])
  ELSE <<>>

\* lines 67-68: hasMore && pageUids.length > 0 ? encodeCursor(last) : undefined
NextCursorOf(ordered, pageUids) ==
  LET hasMore == Len(ordered) > Len(pageUids)
  IN IF hasMore /\ Len(pageUids) > 0
     THEN encodeCursor(pageUids[Len(pageUids)])
     ELSE <<>>

PageThrown(msg) ==
  [t |-> "throw", pageUids |-> <<>>, nextCursor |-> <<>>, sort |-> "",
   limit |-> 0, msg |-> msg]

\* lines 66-69, given the page
PageResult(ordered, pageUids, sort, limit) ==
  [t |-> "ok", pageUids |-> pageUids,
   nextCursor |-> NextCursorOf(ordered, pageUids),
   sort |-> sort, limit |-> limit, msg |-> <<>>]

\* lines 59-69, given the decoded cursor
PageFrom(uniqueAsc, sort, limit, cursorUid) ==
  IF cursorUid.t = "throw" THEN PageThrown(cursorUid.msg)
  ELSE With(PastCursor(OrderBy(uniqueAsc, sort), sort, cursorUid),
            LAMBDA ordered :
         With(SliceTo(ordered, limit), LAMBDA pageUids :
           PageResult(ordered, pageUids, sort, limit)))

\* input = [cursor, limit, maxResults, sort]; an absent maxResults is Undefined
paginateUids(matchedUids, input) ==
  With(input, LAMBDA in :
    With(UniqueAsc(matchedUids), LAMBDA uniqueAsc :
      With(decodeCursor(in.cursor), LAMBDA cursorUid :
        PageFrom(uniqueAsc,
                 normalizeSort(in.sort),
                 clampLimit(in.limit,
                            IF in.maxResults.t = "undef"
                            THEN JsNum(PaginateDefaultMax) ELSE in.maxResults,
                            JsNum(PaginateDefaultLimit)),
                 cursorUid))))

(***************************************************************************)
(* Text of criteria values and error messages: a sequence of tokens.  A    *)
(* token is a word, an ISO calendar day (YYYY-MM-DD) or an ISO date-time   *)
(* (YYYY-MM-DDTHH:MMZ); words are separated by single spaces.              *)
(***************************************************************************)
W(w) == [k |-> "w", w |-> w]
Day(y, mo, d) == [k |-> "ymd", y |-> y, mo |-> mo, d |-> d]
DateTime(y, mo, d, h, mi) ==
  [k |-> "ymdhm", y |-> y, mo |-> mo, d |-> d, h |-> h, mi |-> mi]

\* String.prototype.toLowerCase on one word
LowerWord(w) ==
  CASE w = "Connection" -> "connection"
    [] w = "CONNECTION" -> "connection"
    [] w = "Closed" -> "closed"
    [] w = "CLOSED" -> "closed"
    [] w = "Not" -> "not"
    [] w = "Available" -> "available"
    [] w = "Invalid" -> "invalid"
    [] w = "Use" -> "use"
    [] w = "ISO" -> "iso"
    [] w = "Command" -> "command"
    [] OTHER -> w

ToLowerCase(text) ==
  With(text, LAMBDA tx :
    [i \in 1..Len(tx) |->
       IF tx[i].k = "w" THEN W(LowerWord(tx[i].w)) ELSE tx[i]])

\* String.prototype.includes, at word granularity
Includes(text, part) ==
  \E tx \in {text} :
    \E i \in 0..(Len(tx) - Len(part)) :
      \A j \in 1..Len(part) : tx[i + j] = part[j]

(***************************************************************************)
(* imap.ts: isConnectionError                                              *)
(***************************************************************************)
\* new Error(msg): no code property.  kind is bookkeeping of where the error
\* was raised; the program never reads it.
ValidationError(msg) == [kind |-> "validation", msg |-> msg, code |-> ""]

isConnectionError(err) ==
  \E msg \in {ToLowerCase(err.msg)} :
     \/ Includes(msg, <<W("connection"), W("not"), W("available")>>)
     \/ Includes(msg, <<W("connection"), W("closed")>>)
     \/ err.code = "NoConnection"
     \/ err.code = "EConnectionClosed"

(***************************************************************************)
(* imap.ts: parseDateInput, parseInclusiveEndDate.  An instant is a day    *)
(* number since 1970-01-01 and a millisecond of that day (UTC).            *)
(***************************************************************************)
MsPerDay == 86400000

\* days from 1970-01-01 to the first of a month (proleptic Gregorian)
DaysToMonth(y, mo) ==
  LET yy == IF mo <= 2 THEN y - 1 ELSE y
      era == yy \div 400
      yoe == yy - era * 400
      mp == IF mo > 2 THEN mo - 3 ELSE mo + 9
      doy == (153 * mp + 2) \div 5
      doe == yoe * 365 + (yoe \div 4) - (yoe \div 100) + doy
  IN era * 146097 + doe - 719468

NoDate == [t |-> "undef", day |-> 0, ms |-> 0]
InvalidDate == [t |-> "nan", day |-> 0, ms |-> 0]
Instant(day, ms) == [t |-> "date", day |-> day, ms |-> ms]

\* new Date(value) for the ISO forms; any other text is an Invalid Date
NewDate(value) ==
  IF Len(value) # 1 \/ value[1].k = "w" THEN InvalidDate
  ELSE With(value[1], LAMBDA tk :
         IF tk.mo < 1 \/ tk.mo > 12 \/ tk.d < 1 \/ tk.d > 31
         THEN InvalidDate
         ELSE IF tk.k = "ymd"
         THEN Instant(DaysToMonth(tk.y, tk.mo) + tk.d - 1, 0)
         ELSE IF tk.h > 23 \/ tk.mi > 59 THEN InvalidDate
         ELSE Instant(DaysToMonth(tk.y, tk.mo) + tk.d - 1,
                      (tk.h * 60 + tk.mi) * 60000))

\* the message without the echo of the value
InvalidDateMessageNoEcho(name, value) ==
  <<W("Invalid"), W(name), W(".")>>

\* Invalid ${name}: ${value}. Use ISO date format like YYYY-MM-DD.
InvalidDateMessage(name, value) ==
  <<W("Invalid"), W(name), W(":")>> \o value \o
  <<W("."), W("Use"), W("ISO"), W("date"), W("format"), W("like"),
    W("YYYY-MM-DD"), W(".")>>

DateThrown(msg) == [t |-> "throw", day |-> 0, ms |-> 0, msg |-> msg]

parseDateInput(name, value) ==
  IF value = <<>> THEN NoDate
  ELSE With(NewDate(value), LAMBDA d :
         IF d.t = "nan" THEN DateThrown(InvalidDateMessage(name, value))
         ELSE d)

\* /^\d{4}-\d{2}-\d{2}$/.test(value)
IsBareDay(value) == Len(value) = 1 /\ value[1].k = "ymd"

\* d.getTime() + ms, ms < one day
AddMs(d, ms) ==
  Instant(d.day + ((d.ms + ms) \div MsPerDay), (d.ms + ms) % MsPerDay)

\* an upper bound used as given, whatever its form
parseInclusiveEndDateExact(name, value) == parseDateInput(name, value)

parseInclusiveEndDate(name, value) ==
  With(parseDateInput(name, value), LAMBDA d :
    IF d.t # "date" THEN d
    ELSE IF IsBareDay(value)
         THEN AddMs(d, 24 * 60 * 60 * 1000)
         ELSE d)

\* a >= b on instants
DateGeq(a, b) == a.day > b.day \/ (a.day = b.day /\ a.ms >= b.ms)

(***************************************************************************)
(* State.                                                                  *)
(*   cursor calls:     cpc, cur, encOf, dec                                *)
(*   pagination calls: ppc, matched, pin, page, items, chain               *)
(*                     again                                               *)
(*   operations:       opc, req, opts, attempt, calls, todo, acc, pgin,    *)
(*                     paged, out, caught, faults, held, flagged, replies  *)
(*   compilation:      compiled                                            *)
(***************************************************************************)
VARIABLES
  cpc,      \* "idle" | "have" | "decoded"
  cur,      \* the cursor text at hand
  encOf,    \* the uid cur was encoded from, 0 for a caller-supplied cursor
  dec,      \* result of decodeCursor(cur)
  ppc,      \* "start" | "paged"
  matched,  \* the uids matched by the store, as returned
  pin,      \* the PaginationInput of the latest call
  page,     \* the PaginationResult of the latest call
  items,    \* concatenation of the pages returned so far
  chain,    \* TRUE while every cursor used came from the previous page
  again,    \* the PaginationResult of the same call made once more
  opc,      \* where the operation stands: "idle", "run", ..., "done"
  req,      \* the operation called and its arguments
  opts,     \* resolveListOptions(options, defaults)
  attempt,  \* 0 before the first run(), then 1 or 2
  calls,    \* the calls made on clients so far, with their attempt
  todo,     \* the store requests the attempt has yet to issue
  acc,      \* matched / uidSet: the uids collected by the attempt
  pgin,     \* the PaginationInput the attempt hands to paginateUids
  paged,    \* the PaginationResult of the attempt
  out,      \* what the attempt returns or throws, once known
  caught,   \* the error caught from the first run()
  faults,   \* the number of store calls that failed
  held,     \* the number of mailbox locks acquired and not yet released
  flagged,  \* the uids of the mailbox whose \Seen flag the store has set
  replies,  \* what the searches of the current run() resolved with
  compiled, \* the outcome of compiling the criteria of an advanced search
  inflight, \* the store requests sent and not yet answered
  procs,    \* the calls that run side by side, each with its own locals
  clients,  \* the clients created so far, each with its state
  clamp,    \* the arguments of a clampLimit call and its result
  store,    \* the mailboxes of the store the side-by-side calls read
  snip,     \* a fetched message, the snippet options and the snippet made
  tool,     \* a tool call: its arguments, what reached the store, its reply
  ncalls    \* the number of calls a chain of pages has made so far

cursorVars == <<cpc, cur, encOf, dec>>
pageVars == <<ppc, matched, pin, page, items, chain, again>>
opsVars ==
  <<opc, req, opts, attempt, calls, todo, acc, pgin, paged, out, caught, faults,
    held, flagged, replies, compiled>>
moreVars == <<inflight, procs, clients, clamp, store, snip, tool, ncalls>>
vars ==
  <<cpc, cur, encOf, dec, ppc, matched, pin, page, items, chain, again,
    opc, req, opts, attempt, calls, todo, acc, pgin, paged, out, caught,
    faults, held, flagged, replies, compiled, inflight, procs, clients, clamp,
    store, snip, tool, ncalls>>

NoPage ==
  [t |-> "none", pageUids |-> <<>>, nextCursor |-> <<>>, sort |-> "",
   limit |-> 0, msg |-> <<>>]
NoInput ==
  [cursor |-> <<>>, limit |-> Undefined, maxResults |-> Undefined, sort |-> ""]

CursorIdle == cpc = "idle" /\ cur = <<>> /\ encOf = 0 /\ dec = Undefined
NoClamp == [t |-> "none"]
NoStore == <<>>
NoSnip == [t |-> "none"]
NoTool == [t |-> "none"]
MoreIdle ==
  /\ inflight = {} /\ procs = <<>> /\ clients = <<>> /\ clamp = NoClamp
  /\ store = NoStore /\ snip = NoSnip /\ tool = NoTool
  /\ ncalls = 0
PageIdle ==
  /\ ppc = "start" /\ matched = <<>> /\ pin = NoInput /\ page = NoPage
  /\ items = <<>> /\ chain = TRUE /\ again = NoPage

NoRequest == [op |-> "none"]
NoOptions == [limit |-> 0, sort |-> "", cursor |-> <<>>, maxResults |-> Undefined]
NoErr == [kind |-> "none", msg |-> <<>>, code |-> ""]
NoCompiled == [t |-> "none", err |-> NoErr, todo |-> <<>>, cursor |-> <<>>]
NoOut == [t |-> "none", items |-> <<>>, nextCursor |-> <<>>, err |-> NoErr]
OpsIdle ==
  /\ opc = "idle" /\ req = NoRequest /\ opts = NoOptions /\ attempt = 0
  /\ calls = <<>> /\ todo = <<>> /\ acc = <<>> /\ pgin = NoInput
  /\ paged = NoPage /\ out = NoOut /\ caught = NoErr /\ faults = 0
  /\ held = 0 /\ flagged = {} /\ replies = <<>> /\ compiled = NoCompiled

(***************************************************************************)
(* Inputs.                                                                 *)
(***************************************************************************)
RECURSIVE SeqsUpTo(_, _)
\* all sequences over S of length at most n
SeqsUpTo(S, n) ==
  IF n = 0 THEN {<<>>}
  ELSE LET shorter == SeqsUpTo(S, n - 1)
       IN shorter \cup {Append(q, x) : q \in shorter, x \in S}

\* bytes a caller-made cursor may decode to: 0 1 2 space - + . e x
CursorAlphabet == {48, 49, 50, 32, 45, 43, 46, 101, 120}

\* longer payloads: "Infinity", " 12 ", "0x1f", "1e1", "1.0", "1.5", "2e-1",
\* "not-base64"
SpecialPayloads ==
  { InfinityText, <<32, 49, 50, 32>>, <<48, 120, 49, 102>>, <<49, 101, 49>>,
    <<49, 46, 48>>, <<49, 46, 53>>, <<50, 101, 45, 49>>,
    <<110, 111, 116, 45, 98, 97, 115, 101, 54, 52>> }

\* cursors a caller may send: encodings of the payloads, and texts that are
\* no canonical encoding (a dangling character, the test's 'not-base64')
CallerCursors ==
  {ToBase64Url(b) : b \in SeqsUpTo(CursorAlphabet, MaxTextLen) \cup SpecialPayloads}
  \cup { <<"M">>, <<"M", "Q", "A">>, <<"M", "R">>,
         <<"n", "o", "t", "-", "b", "a", "s", "e", "6", "4">> }

\* uids whose cursor is encoded and decoded
MaxCursorUid == 120

(***************************************************************************)
(* Cursor calls: encodeCursor(uid), decodeCursor(cursor).                  *)
(***************************************************************************)
InitCursor == CursorIdle /\ PageIdle /\ OpsIdle /\ MoreIdle

Encode(uid) ==
  /\ cpc \in {"idle", "decoded"}
  /\ cur' = encodeCursor(uid)
  /\ encOf' = uid
  /\ dec' = Undefined
  /\ cpc' = "have"
  /\ UNCHANGED <<pageVars, opsVars, moreVars>>

Receive(cursor) ==
  /\ cpc \in {"idle", "decoded"}
  /\ cur' = cursor
  /\ encOf' = 0
  /\ dec' = Undefined
  /\ cpc' = "have"
  /\ UNCHANGED <<pageVars, opsVars, moreVars>>

Decode ==
  /\ cpc = "have"
  /\ dec' = decodeCursor(cur)
  /\ cpc' = "decoded"
  /\ UNCHANGED <<cur, encOf>>
  /\ UNCHANGED <<pageVars, opsVars, moreVars>>

NextCursor ==
  \/ \E uid \in 1..MaxCursorUid : Encode(uid)
  \/ \E cursor \in CallerCursors : Receive(cursor)
  \/ Decode

SpecCursor == InitCursor /\ [][NextCursor]_vars

(***************************************************************************)
(* Pagination calls: paginateUids(matchedUids, input).                     *)
(***************************************************************************)
UidValues == (-1)..MaxUid
LimitInputs == {Undefined, JsNum(1), JsNum(2), JsFrac(5, 2)}
MaxResultsInputs == {Undefined, JsNum(1)}
SortInputs == {"asc", "desc", ""}

\* cursors a caller pages with: well-formed ones for uids in and out of the
\* match set, "0" and a dangling character
PageCursors ==
  {encodeCursor(uid) : uid \in 1..(MaxUid + 1)}
  \cup {ToBase64Url(<<48>>), <<"M">>}

InitPage ==
  /\ CursorIdle
  /\ MoreIdle
  /\ OpsIdle
  /\ ppc = "start"
  /\ matched \in SeqsUpTo(UidValues, MaxLen)
  /\ pin \in [cursor : {<<>>}, limit : LimitInputs,
              maxResults : MaxResultsInputs, sort : SortInputs]
  /\ page = NoPage
  /\ items = <<>>
  /\ chain = TRUE
  /\ again = NoPage

\* the first call of a chain: no cursor
FirstPage ==
  /\ ppc = "start"
  /\ page' = paginateUids(matched, pin)
  /\ items' = page'.pageUids
  /\ ppc' = "paged"
  /\ UNCHANGED <<matched, pin, chain, again>>
  /\ UNCHANGED <<cursorVars, opsVars, moreVars>>

\* the next call of a chain: the cursor is the previous page's nextCursor
FollowCursor ==
  /\ ppc = "paged"
  /\ page.t = "ok"
  /\ page.nextCursor # <<>>
  /\ pin' = [pin EXCEPT !.cursor = page.nextCursor]
  /\ page' = paginateUids(matched, pin')
  /\ items' = items \o page'.pageUids
  /\ UNCHANGED <<ppc, matched, chain, again>>
  /\ UNCHANGED <<cursorVars, opsVars, moreVars>>

\* a call with a cursor of the caller's own
CallerPage(cursor) ==
  /\ ppc = "start"
  /\ pin' = [pin EXCEPT !.cursor = cursor]
  /\ page' = paginateUids(matched, pin')
  /\ items' = page'.pageUids
  /\ ppc' = "paged"
  /\ chain' = FALSE
  /\ UNCHANGED <<matched, again>>
  /\ UNCHANGED <<cursorVars, opsVars, moreVars>>

NextPage ==
  \/ FirstPage
  \/ FollowCursor
  \/ \E cursor \in PageCursors : CallerPage(cursor)

SpecPage == InitPage /\ [][NextPage]_vars

(***************************************************************************)
(* imap.ts: resolveListOptions.  includeSnippet and snippetLength decide   *)
(* only the snippet text of an envelope and are left out of the options.   *)
(***************************************************************************)
\* listMessagesPage and the searches: defaultLimit: 50
ListDefaultLimit == 50
\* getThreadContext: defaultLimit: 20
ThreadDefaultLimit == 20
\* maxResults: options?.maxResults ?? 200
DefaultMaxResults == 200

\* options = [cursor, limit, maxResults, sort] as the caller gave them
resolveListOptions(options, defaultLimit) ==
  LET defaultMax == IF options.maxResults.t = "undef"
                    THEN JsNum(DefaultMaxResults) ELSE options.maxResults
      maxResults == IF IsFinite(options.maxResults)
                    THEN JsNum(Max(1, Floor(options.maxResults)))
                    ELSE defaultMax
  IN [limit |-> clampLimit(options.limit, maxResults, JsNum(defaultLimit)),
      sort |-> normalizeSort(options.sort),
      cursor |-> options.cursor,
      maxResults |-> maxResults]

\* the PaginationInput built from the resolved options
PageInput(o, cursor) ==
  [cursor |-> cursor, limit |-> JsNum(o.limit), maxResults |-> o.maxResults,
   sort |-> o.sort]

(***************************************************************************)
(* The store behind ImapClientLike.  A mailbox is the set of the uids of   *)
(* its messages; sequence numbers follow ascending uid.  No operation      *)
(* changes it.                                                             *)
(***************************************************************************)
\* at most this many store calls of one operation fail
MaxFaults == 1
\* the uids of the operations' mailboxes are 1..MaxMail
MaxMail == 2

RECURSIVE AscOf(_)
\* the members of a set of uids in ascending order
AscOf(S) ==
  With(S, LAMBDA s :
    IF s = {} THEN <<>>
    ELSE With(CHOOSE x \in s : \A y \in s : x <= y, LAMBDA m :
           <<m>> \o AscOf(s \ {m})))

\* an Error message of plain words, as text
Words(text) == With(text, LAMBDA tx : [i \in 1..Len(tx) |-> W(tx[i])])

\* errors a store call rejects with: a lost connection, a refused command
ConnectionLost ==
  [kind |-> "store", msg |-> <<W("Connection"), W("not"), W("available")>>,
   code |-> "NoConnection"]
CommandFailed ==
  [kind |-> "store", msg |-> <<W("Command"), W("failed")>>, code |-> ""]
StoreErrors == {ConnectionLost, CommandFailed}

\* search(query, {uid: true}) resolves with an array of uids or with false
Found(uids) == [array |-> TRUE, uids |-> uids]
NotFound == [array |-> FALSE, uids |-> <<>>]

\* the uid set "lo:hi" or "lo:*" taken as the interval it names
InUidRange(u, query) == u >= query.lo /\ (query.star \/ u <= query.hi)

\* what a search may resolve with: a uid-range query selects exactly the
\* messages in the range; the matches of any other query depend on message
\* content, so any part of the mailbox, in either order, or false
SearchReplies(mailbox, query) ==
  IF query.k = "uid"
  THEN {Found(AscOf({u \in mailbox : InUidRange(u, query)}))}
  ELSE {NotFound}
       \cup {Found(AscOf(S)) : S \in SUBSET mailbox}
       \cup {Found(Reverse(AscOf(S))) : S \in SUBSET mailbox}

\* Array.isArray(raw) ? raw : []
ArrayOrEmpty(reply) == IF reply.array THEN reply.uids ELSE <<>>

RECURSIVE SetAddAll(_, _)
\* for (const foundUid of uids) uidSet.add(foundUid), in insertion order
SetAddAll(uidSet, uids) ==
  With(uids, LAMBDA us :
    IF us = <<>> THEN uidSet
    ELSE With(SetAddAll(uidSet, SubSeq(us, 1, Len(us) - 1)), LAMBDA r :
           IF \E i \in 1..Len(r) : r[i] = us[Len(us)]
           THEN r ELSE Append(r, us[Len(us)])))

\* fetch(range, ...) by sequence numbers lo..hi of a mailbox of total messages
FetchBySeq(mailbox, lo, hi) ==
  With(AscOf(mailbox), LAMBDA bySeq : SubSeq(bySeq, lo, Min(hi, Len(bySeq))))

\* fetch(uids, ..., {uid: true}): the messages that exist, in mailbox order
FetchByUids(mailbox, uids) ==
  With(Range(uids), LAMBDA wanted : AscOf({u \in mailbox : u \in wanted}))

\* for await (const msg of client.fetch(...)): the records come in an order
\* of the store's own
FetchYields(records) == {records, Reverse(records)}

\* the envelopes returned as they were pushed
sortEnvelopesAsFetched(envelopes, sort) == envelopes

\* sortEnvelopes; an envelope is known by its uid
sortEnvelopes(envelopes, sort) ==
  IF sort = "asc" THEN SortAsc(envelopes) ELSE Reverse(SortAsc(envelopes))

\* results of one run()
Ok(envelopes, nextCursor) ==
  [t |-> "ok", items |-> envelopes, nextCursor |-> nextCursor, err |-> NoErr]
\* an absent target reported by an error of the operation's own
NullAsError ==
  [t |-> "throw", items |-> <<>>, nextCursor |-> <<>>,
   err |-> ValidationError(<<W("not"), W("found")>>)]
Null == [t |-> "null", items |-> <<>>, nextCursor |-> <<>>, err |-> NoErr]
Throw(err) == [t |-> "throw", items |-> <<>>, nextCursor |-> <<>>, err |-> err]

(***************************************************************************)
(* imap.ts: what each operation does between getMailboxLock and its first  *)
(* request to the store.  The outcome is a throw, a return, the searches   *)
(* to issue (with the cursor that paginateUids will be given), a fetch by  *)
(* sequence range, or the fetchOne of a thread's target.                   *)
(***************************************************************************)
StartThrow(err) == [t |-> "throw", err |-> err, todo |-> <<>>, cursor |-> <<>>]
StartReturn == [t |-> "return", err |-> NoErr, todo |-> <<>>, cursor |-> <<>>]
StartSearch(queries, cursor) ==
  [t |-> "search", err |-> NoErr, todo |-> queries, cursor |-> cursor]
StartRange(lo, hi, star) ==
  [t |-> "range", err |-> NoErr,
   todo |-> <<[k |-> "seq", lo |-> lo, hi |-> hi, star |-> star]>>,
   cursor |-> <<>>]
StartFetchOne(cursor) ==
  [t |-> "fetchOne", err |-> NoErr, todo |-> <<>>, cursor |-> cursor]

AllQuery == [k |-> "all"]
\* { uid: `${lo}:*` } and { uid: `${lo}:${hi}` }
UidFrom(lo) == [k |-> "uid", lo |-> lo, hi |-> lo, star |-> TRUE]
UidTo(lo, hi) == [k |-> "uid", lo |-> lo, hi |-> hi, star |-> FALSE]

\* listMessagesPage with a cursor whose check is left to paginateUids
ListStartLateCursor(o, total) ==
  IF o.cursor = <<>>
  THEN IF total = 0 THEN StartReturn
       ELSE IF o.sort = "desc"
            THEN StartRange(Max(1, total - o.limit + 1), total, TRUE)
            ELSE StartRange(1, Min(total, o.limit), FALSE)
  ELSE StartSearch(<<AllQuery>>, o.cursor)

\* listMessagesPage, lines 392-420; total is client.mailbox?.exists ?? 0
ListStart(o, total) ==
  IF o.cursor = <<>>
  THEN IF total = 0 THEN StartReturn
       ELSE IF o.sort = "desc"
            THEN StartRange(Max(1, total - o.limit + 1), total, TRUE)
            ELSE StartRange(1, Min(total, o.limit), FALSE)
  ELSE With(decodeCursor(o.cursor), LAMBDA cursorUid :
         IF cursorUid.t = "throw"
         THEN StartThrow(ValidationError(Words(cursorUid.msg)))
         ELSE IF cursorUid.t = "undef"
         THEN StartSearch(<<AllQuery>>, <<>>)
         ELSE IF o.sort = "asc"
         THEN StartSearch(<<UidFrom(cursorUid.n + 1)>>, <<>>)
         ELSE StartSearch(<<UidTo(1, Max(1, cursorUid.n - 1))>>, <<>>))

\* the first parsed date that is a throw, NoDate when none is
FirstThrown(parsed) ==
  With(parsed, LAMBDA ps :
    IF \E i \in 1..Len(ps) : ps[i].t = "throw"
    THEN ps[CHOOSE i \in 1..Len(ps) :
              /\ ps[i].t = "throw"
              /\ \A j \in 1..(i - 1) : ps[j].t # "throw"]
    ELSE NoDate)

\* searchMailPage, lines 528-535
SearchStart(criteria, o) ==
  With(<<parseDateInput("since", criteria.since),
         parseDateInput("before", criteria.before)>>, LAMBDA ds :
    IF FirstThrown(ds).t = "throw"
    THEN StartThrow(ValidationError(FirstThrown(ds).msg))
    ELSE StartSearch(
           <<[k |-> "search", from |-> criteria.from, to |-> criteria.to,
              subject |-> criteria.subject, body |-> criteria.body,
              since |-> ds[1], before |-> ds[2],
              seen |-> IF criteria.unseen THEN "false" ELSE "absent"]>>,
           o.cursor))

SeenUnseenMessage ==
  Words(<<"seen", "and", "unseen", "cannot", "both", "be", "true">>)
ReceivedRangeMessage ==
  Words(<<"dateFrom", "must", "be", "earlier", "than", "or", "equal", "to",
          "dateTo">>)
SentRangeMessage ==
  Words(<<"sentDateFrom", "must", "be", "earlier", "than", "or", "equal",
          "to", "sentDateTo">>)

\* since && before && since > before
InvertedStrict(since, before) ==
  /\ since.t = "date" /\ before.t = "date"
  /\ DateGeq(since, before) /\ since # before

\* since && before && since >= before
Inverted(since, before) ==
  since.t = "date" /\ before.t = "date" /\ DateGeq(since, before)

\* the query without its bcc term
AdvancedQueryWithoutBcc(criteria, ds) ==
  [k |-> "advanced", text |-> criteria.keyword, from |-> criteria.sender,
   to |-> criteria.receiver, cc |-> criteria.cc, bcc |-> <<>>,
   subject |-> criteria.subject, body |-> criteria.body,
   seen |-> IF criteria.unseen THEN "false"
            ELSE IF criteria.seen THEN "true" ELSE "absent",
   header |-> criteria.messageId,
   on |-> ds[1], since |-> ds[2], before |-> ds[3],
   sentOn |-> ds[4], sentSince |-> ds[5], sentBefore |-> ds[6]]

\* searchMailAdvancedPage, lines 606-630, given the six parsed dates
AdvancedQuery(criteria, ds) ==
  [k |-> "advanced", text |-> criteria.keyword, from |-> criteria.sender,
   to |-> criteria.receiver, cc |-> criteria.cc, bcc |-> criteria.bcc,
   subject |-> criteria.subject, body |-> criteria.body,
   seen |-> IF criteria.unseen THEN "false"
            ELSE IF criteria.seen THEN "true" ELSE "absent",
   header |-> criteria.messageId,
   on |-> ds[1], since |-> ds[2], before |-> ds[3],
   sentOn |-> ds[4], sentSince |-> ds[5], sentBefore |-> ds[6]]

\* lines 606-637 without the check of lines 602-604: unseen wins
AdvancedStartUnchecked(criteria, o) ==
  With(<<parseDateInput("date", criteria.date),
         parseDateInput("dateFrom", criteria.dateFrom),
         parseInclusiveEndDate("dateTo", criteria.dateTo),
         parseDateInput("sentDate", criteria.sentDate),
         parseDateInput("sentDateFrom", criteria.sentDateFrom),
         parseInclusiveEndDate("sentDateTo", criteria.sentDateTo)>>,
       LAMBDA ds :
    IF FirstThrown(ds).t = "throw"
    THEN StartThrow(ValidationError(FirstThrown(ds).msg))
    ELSE IF Inverted(ds[2], ds[3])
    THEN StartThrow(ValidationError(ReceivedRangeMessage))
    ELSE IF Inverted(ds[5], ds[6])
    THEN StartThrow(ValidationError(SentRangeMessage))
    ELSE StartSearch(<<AdvancedQuery(criteria, ds)>>, o.cursor))

\* searchMailAdvancedPage with the two range checks in the other order
AdvancedStartSentFirst(criteria, o) ==
  IF criteria.seen /\ criteria.unseen
  THEN StartThrow(ValidationError(SeenUnseenMessage))
  ELSE With(<<parseDateInput("date", criteria.date),
              parseDateInput("dateFrom", criteria.dateFrom),
              parseInclusiveEndDate("dateTo", criteria.dateTo),
              parseDateInput("sentDate", criteria.sentDate),
              parseDateInput("sentDateFrom", criteria.sentDateFrom),
              parseInclusiveEndDate("sentDateTo", criteria.sentDateTo)>>,
            LAMBDA ds :
         IF FirstThrown(ds).t = "throw"
         THEN StartThrow(ValidationError(FirstThrown(ds).msg))
         ELSE IF Inverted(ds[5], ds[6])
         THEN StartThrow(ValidationError(SentRangeMessage))
         ELSE IF Inverted(ds[2], ds[3])
         THEN StartThrow(ValidationError(ReceivedRangeMessage))
         ELSE StartSearch(<<AdvancedQuery(criteria, ds)>>, o.cursor))

\* searchMailAdvancedPage, lines 602-637
AdvancedStart(criteria, o) ==
  IF criteria.seen /\ criteria.unseen
  THEN StartThrow(ValidationError(SeenUnseenMessage))
  ELSE With(<<parseDateInput("date", criteria.date),
              parseDateInput("dateFrom", criteria.dateFrom),
              parseInclusiveEndDate("dateTo", criteria.dateTo),
              parseDateInput("sentDate", criteria.sentDate),
              parseDateInput("sentDateFrom", criteria.sentDateFrom),
              parseInclusiveEndDate("sentDateTo", criteria.sentDateTo)>>,
            LAMBDA ds :
         IF FirstThrown(ds).t = "throw"
         THEN StartThrow(ValidationError(FirstThrown(ds).msg))
         ELSE IF Inverted(ds[2], ds[3])
         THEN StartThrow(ValidationError(ReceivedRangeMessage))
         ELSE IF Inverted(ds[5], ds[6])
         THEN StartThrow(ValidationError(SentRangeMessage))
         ELSE StartSearch(<<AdvancedQuery(criteria, ds)>>, o.cursor))

\* the valid fields as often as they are listed
safeFieldsRepeated(fields) ==
  SelectSeq(fields, LAMBDA f : f \in {"subject", "body", "from", "to"})

\* queryByFolderPage, lines 804-806: the valid fields, once each
safeFields(fields) ==
  Dedup(SelectSeq(fields, LAMBDA f : f \in {"subject", "body", "from", "to"}))

\* queryByFolderPage, lines 815-817: one search per field
FolderStart(q, fields, o) ==
  With(safeFields(fields), LAMBDA fs :
    StartSearch([i \in 1..Len(fs) |-> [k |-> "field", field |-> fs[i], q |-> q]],
                o.cursor))

\* normalizeMessageId: value.trim().replace(/^<|>$/g, "") on the characters
\* of a header value ("<" is 60, ">" is 62)
normalizeMessageId(value) ==
  With(Trim(value), LAMBDA v :
    With(IF v # <<>> /\ v[1] = 60 THEN Tail(v) ELSE v, LAMBDA w :
      IF w # <<>> /\ w[Len(w)] = 62 THEN SubSeq(w, 1, Len(w) - 1) ELSE w))

\* collectReferenceIds on the parsed headers.  An absent header and an
\* empty one are both <<>>: neither adds an id that survives
\* filter(Boolean).  references is the array of its entries, a single
\* string being an array of one
collectReferenceIds(parsed) ==
  With((IF parsed.messageId # <<>>
        THEN <<normalizeMessageId(parsed.messageId)>> ELSE <<>>)
       \o <<normalizeMessageId(parsed.inReplyTo)>>
       \o [i \in 1..Len(parsed.references) |->
             normalizeMessageId(parsed.references[i])],
       LAMBDA added :
    With(SetAddAll(<<>>, added), LAMBDA ids :
      SelectSeq(ids, LAMBDA id : id # <<>>)))

\* lines 899-906: relatedIds, in insertion order
relatedIds(target) ==
  With(collectReferenceIds(target), LAMBDA collected :
    SetAddAll(collected,
              (IF target.envMessageId # <<>>
               THEN <<normalizeMessageId(target.envMessageId)>> ELSE <<>>)
              \o (IF target.envInReplyTo # <<>>
                  THEN <<normalizeMessageId(target.envInReplyTo)>> ELSE <<>>)))

\* const uidSet = new Set<number>()
NewUidSetEmpty(uid) == <<>>

\* line 908: const uidSet = new Set<number>([uid])
NewUidSet(uid) == <<uid>>

\* getThreadContext, lines 909-917: one search per related id, for <id>
ThreadQueries(ids) ==
  With(ids, LAMBDA is :
    [i \in 1..Len(is) |-> [k |-> "or", id |-> <<60>> \o is[i] \o <<62>>]])

\* the body of run() of each operation, up to its first store request
Start(r, o) ==
  CASE r.op = "list" -> ListStart(o, Cardinality(r.mailbox))
    [] r.op = "search" -> SearchStart(r.criteria, o)
    [] r.op = "advanced" -> AdvancedStart(r.criteria, o)
    [] r.op = "folder" -> FolderStart(Trim(r.q), r.fields, o)
    [] r.op = "thread" -> StartFetchOne(o.cursor)
    [] r.op \in {"message", "attachments"} -> StartFetchOne(<<>>)

(***************************************************************************)
(* The calls an operation is given.                                        *)
(***************************************************************************)
Mailboxes == SUBSET (1..MaxMail)

\* a search may resolve with any part of the mailbox: an empty mailbox and
\* a full one give every reply
EmptyOrFull == {{}, 1..MaxMail}

\* a malformed cursor: one dangling base64url character
MalformedCursor == <<"M">>

OpCursors ==
  {<<>>, MalformedCursor} \cup {encodeCursor(c) : c \in 1..MaxMail}

ListRequests ==
  [op : {"list"}, mailbox : Mailboxes,
   options : [cursor : OpCursors, limit : {Undefined, JsNum(1), JsNum(2)},
              maxResults : {Undefined}, sort : SortInputs]]

\* options of the searches: no cursor, a well-formed one, a malformed one
SearchOptions ==
  [cursor : {<<>>, encodeCursor(1), MalformedCursor}, limit : {JsNum(1)},
   maxResults : {Undefined}, sort : {"asc", ""}]

\* date texts: absent, a bare day, a date-time, and texts that are no date
BareDay == <<Day(2024, 1, 10)>>
NextDay == <<Day(2024, 1, 11)>>
DayNoon == <<DateTime(2024, 1, 10, 12, 0)>>
NotADate == <<W("not-a-date")>>
DateTexts ==
  {<<>>, BareDay, DayNoon, NotADate,
   <<W("connection"), W("closed")>>, <<W("Connection"), W("Closed")>>}

PlainSearch ==
  [from |-> <<>>, to |-> <<>>, subject |-> <<W("x")>>, body |-> <<>>,
   since |-> <<>>, before |-> <<>>, unseen |-> FALSE]

SearchRequests ==
  [op : {"search"}, mailbox : EmptyOrFull, options : SearchOptions,
   criteria : {[PlainSearch EXCEPT !.since = s, !.before = b, !.unseen = u] :
                 s \in {<<>>, BareDay, NotADate}, b \in {<<>>, NotADate},
                 u \in BOOLEAN}]

PlainAdvanced ==
  [keyword |-> <<>>, sender |-> <<>>, receiver |-> <<>>, cc |-> <<>>,
   bcc |-> <<>>, subject |-> <<>>, body |-> <<>>, messageId |-> <<>>,
   seen |-> FALSE, unseen |-> FALSE,
   date |-> <<>>, dateFrom |-> <<>>, dateTo |-> <<>>,
   sentDate |-> <<>>, sentDateFrom |-> <<>>, sentDateTo |-> <<>>]

\* the read-state flags and each text of the date field; ranges of the
\* received axis; the sent axis
AdvancedCriteria ==
  {[PlainAdvanced EXCEPT !.seen = s, !.unseen = u] :
     s \in BOOLEAN, u \in BOOLEAN}
  \cup {[PlainAdvanced EXCEPT !.date = d] : d \in DateTexts}
  \cup {[PlainAdvanced EXCEPT !.seen = TRUE, !.unseen = TRUE,
                              !.date = NotADate]}
  \cup {[PlainAdvanced EXCEPT !.dateFrom = f, !.dateTo = t] :
          f \in {BareDay, NextDay, DayNoon, NotADate},
          t \in {BareDay, DayNoon, NotADate}}
  \cup {[PlainAdvanced EXCEPT !.sentDate = d, !.sentDateFrom = f,
                              !.sentDateTo = t, !.keyword = <<W("x")>>] :
          d \in {<<>>, NotADate}, f \in {<<>>, NextDay},
          t \in {BareDay, DayNoon}}

AdvancedRequests ==
  [op : {"advanced"}, mailbox : EmptyOrFull, options : SearchOptions,
   criteria : AdvancedCriteria]

\* query texts "", " " and "x"; field lists with a repeat and a stray name
FolderRequests ==
  [op : {"folder"}, mailbox : EmptyOrFull, options : SearchOptions,
   q : {<<>>, <<32>>, <<120>>},
   fields : {<<"subject">>, <<"subject", "body", "subject">>, <<"cc">>}]

\* the headers of a thread's target, as the parser and the envelope give
\* them: none; "<a>" with the envelope's "a"; "<a>" in reply to "<b>" with
\* references "<b>" and " <a> "; "<>"
NoHeaders ==
  [messageId |-> <<>>, inReplyTo |-> <<>>, references |-> <<>>,
   envMessageId |-> <<>>, envInReplyTo |-> <<>>]
TargetHeaders ==
  { NoHeaders,
    [NoHeaders EXCEPT !.messageId = <<60, 97, 62>>, !.envMessageId = <<97>>],
    [NoHeaders EXCEPT !.messageId = <<60, 97, 62>>,
                      !.inReplyTo = <<60, 98, 62>>,
                      !.references = <<<<60, 98, 62>>, <<32, 60, 97, 62, 32>>>>,
                      !.envMessageId = <<60, 97, 62>>,
                      !.envInReplyTo = <<60, 98, 62>>],
    [NoHeaders EXCEPT !.messageId = <<60, 62>>, !.envMessageId = <<60, 62>>] }

\* the options of the searches, and pages of two
PageOfTwo ==
  [cursor : {<<>>}, limit : {JsNum(2)}, maxResults : {Undefined},
   sort : {""}]

ThreadRequests ==
  [op : {"thread"}, mailbox : EmptyOrFull,
   options : SearchOptions \cup PageOfTwo,
   uid : {1}, target : TargetHeaders]

\* listFolders(config), getMailboxStatus(config, mailbox),
\* getMessage(config, mailConfig, mailbox, uid),
\* listAttachments(config, mailbox, uid)
PlainRequests ==
  [op : {"folders", "status"}, mailbox : EmptyOrFull]
  \cup [op : {"message", "attachments"}, mailbox : EmptyOrFull, uid : {1}]

Requests ==
  ListRequests \cup SearchRequests \cup AdvancedRequests
  \cup FolderRequests \cup ThreadRequests \cup PlainRequests

(***************************************************************************)
(* The operations, one step per call on the client.  Every operation is    *)
(*   try { return await run() }                                            *)
(*   catch (err) { if (isConnectionError(err)) return await run();         *)
(*                 throw err }                                             *)
(* and run() is getClient, connect, getMailboxLock, the body, release in   *)
(* the inner finally, safeLogout in the outer one.                         *)
(***************************************************************************)
InitOps == CursorIdle /\ PageIdle /\ OpsIdle /\ MoreIdle

Logged(name, arg) ==
  Append(calls, [att |-> attempt, name |-> name, arg |-> arg])

NoArg == [k |-> "none"]

\* the operations that resolve list options and return a page
PagedOps == {"list", "search", "advanced", "folder", "thread"}

\* getMailboxLock(mailbox, { readOnly: false })
LockOptionsReadWrite(op) == [readOnly |-> FALSE]

\* the options every getMailboxLock of imap.ts is given
LockOptions(op) == [readOnly |-> TRUE]

\* the \Seen flags after a fetch: a store may flag what is fetched, unless
\* the mailbox was selected read-only
FlagsAfterFetch(flags, options, uids) ==
  IF options.readOnly THEN flags ELSE flags \cup uids

\* the awaited store call rejects; the finally blocks run from `next` on
Rejects(next) ==
  /\ faults < MaxFaults
  /\ faults' = faults + 1
  /\ opc' = next
  /\ \E e \in StoreErrors : out' = Throw(e)

\* the exported function is called: the code ahead of the first run()
Call(r) ==
  /\ opc = "idle"
  /\ req' = r
  /\ IF r.op \notin PagedOps
     THEN opts' = opts /\ out' = out /\ opc' = "run" /\ attempt' = 1
     ELSE IF r.op = "folder" /\ Trim(r.q) = <<>>
     THEN /\ opts' = opts
          /\ out' = Ok(<<>>, <<>>) /\ opc' = "done" /\ attempt' = attempt
     ELSE /\ opts' = resolveListOptions(r.options,
                       IF r.op = "thread" THEN ThreadDefaultLimit
                       ELSE ListDefaultLimit)
          /\ IF r.op = "folder" /\ safeFields(r.fields) = <<>>
             THEN out' = Ok(<<>>, <<>>) /\ opc' = "done" /\ attempt' = attempt
             ELSE out' = out /\ opc' = "run" /\ attempt' = 1
  /\ UNCHANGED <<calls, todo, acc, pgin, paged, caught, faults>>
  /\ UNCHANGED <<held, flagged, replies, compiled>>
  /\ UNCHANGED <<cursorVars, pageVars, moreVars>>

\* const client = getClient(config)
GetClient ==
  /\ opc = "run"
  /\ calls' = Logged("getClient", NoArg)
  /\ opc' = "connect"
  /\ UNCHANGED <<req, opts, attempt, todo, acc, pgin, paged, out, caught, faults>>
  /\ UNCHANGED <<held, flagged, replies, compiled>>
  /\ UNCHANGED <<cursorVars, pageVars, moreVars>>

\* the store request that follows connect(): listFolders and
\* getMailboxStatus take no mailbox lock
AfterConnect(op) ==
  CASE op = "folders" -> "list"
    [] op = "status" -> "status"
    [] OTHER -> "lock"

\* await client.connect()
Connect ==
  /\ opc = "connect"
  /\ calls' = Logged("connect", NoArg)
  /\ \/ opc' = AfterConnect(req.op) /\ UNCHANGED <<out, faults>>
     \/ Rejects("logout")
  /\ UNCHANGED <<req, opts, attempt, todo, acc, pgin, paged, caught>>
  /\ UNCHANGED <<held, flagged, replies, compiled>>
  /\ UNCHANGED <<cursorVars, pageVars, moreVars>>

\* listFolders: await client.list({ statusQuery }); the folders returned
\* are not told apart
ListFolders ==
  /\ opc = "list"
  /\ calls' = Logged("list", NoArg)
  /\ \/ out' = Ok(<<>>, <<>>) /\ opc' = "logout" /\ UNCHANGED faults
     \/ Rejects("logout")
  /\ UNCHANGED <<req, opts, attempt, todo, acc, pgin, paged, caught>>
  /\ UNCHANGED <<held, flagged, replies, compiled>>
  /\ UNCHANGED <<cursorVars, pageVars, moreVars>>

\* getMailboxStatus: await client.status(mailbox, { ... }); the counters
\* returned are not told apart
Status ==
  /\ opc = "status"
  /\ calls' = Logged("status", NoArg)
  /\ \/ out' = Ok(<<>>, <<>>) /\ opc' = "logout" /\ UNCHANGED faults
     \/ Rejects("logout")
  /\ UNCHANGED <<req, opts, attempt, todo, acc, pgin, paged, caught>>
  /\ UNCHANGED <<held, flagged, replies, compiled>>
  /\ UNCHANGED <<cursorVars, pageVars, moreVars>>

\* run() without the inner finally on the path of an error thrown ahead of
\* the first store request
BeginSkipsRelease(start) ==
  /\ todo' = start.todo
  /\ pgin' = PageInput(opts, start.cursor)
  /\ CASE start.t = "throw" -> out' = Throw(start.err) /\ opc' = "logout"
       [] start.t = "return" -> out' = Ok(<<>>, <<>>) /\ opc' = "release"
       [] start.t = "search" -> out' = out /\ opc' = "search"
       [] start.t = "range" -> out' = out /\ opc' = "range"
       [] start.t = "fetchOne" -> out' = out /\ opc' = "fetchOne"

\* what run() does once the lock is held, up to its next store request
Begin(start) ==
  /\ todo' = start.todo
  /\ pgin' = PageInput(opts, start.cursor)
  /\ CASE start.t = "throw" -> out' = Throw(start.err) /\ opc' = "release"
       [] start.t = "return" -> out' = Ok(<<>>, <<>>) /\ opc' = "release"
       [] start.t = "search" -> out' = out /\ opc' = "search"
       [] start.t = "range" -> out' = out /\ opc' = "range"
       [] start.t = "fetchOne" -> out' = out /\ opc' = "fetchOne"

\* await client.getMailboxLock(mailbox, { readOnly: true })
Lock ==
  /\ opc = "lock"
  /\ calls' = Logged("getMailboxLock", LockOptions(req.op))
  /\ \/ Begin(Start(req, opts)) /\ held' = held + 1 /\ UNCHANGED faults
     \/ Rejects("logout") /\ UNCHANGED <<todo, pgin, held>>
  /\ UNCHANGED <<req, opts, attempt, acc, paged, caught>>
  /\ UNCHANGED <<flagged, replies, compiled>>
  /\ UNCHANGED <<cursorVars, pageVars, moreVars>>

\* paginateUids, and the store asked for the envelopes of every page, an
\* empty one included
PaginateAlwaysFetches(uids) ==
  \E pg \in {paginateUids(uids, pgin)} :
    /\ paged' = pg
    /\ IF pg.t = "throw"
       THEN out' = Throw(ValidationError(Words(pg.msg))) /\ opc' = "release"
       ELSE out' = out /\ opc' = "fetch"

\* paginateUids on the collected uids; fetchEnvelopesByUids asks the store
\* only for a page that is not empty
Paginate(uids) ==
  \E pg \in {paginateUids(uids, pgin)} :
    /\ paged' = pg
    /\ IF pg.t = "throw"
       THEN out' = Throw(ValidationError(Words(pg.msg))) /\ opc' = "release"
       ELSE IF pg.pageUids = <<>>
       THEN out' = Ok(<<>>, pg.nextCursor) /\ opc' = "release"
       ELSE out' = out /\ opc' = "fetch"

\* await client.search(query, { uid: true })
Search ==
  /\ opc = "search"
  /\ calls' = Logged("search", Head(todo))
  /\ \/ /\ \E reply \in SearchReplies(req.mailbox, Head(todo)) :
             /\ acc' = IF req.op \in {"folder", "thread"}
                       THEN SetAddAll(acc, ArrayOrEmpty(reply))
                       ELSE ArrayOrEmpty(reply)
             /\ replies' = Append(replies, ArrayOrEmpty(reply))
             /\ todo' = Tail(todo)
             /\ IF todo' # <<>>
                THEN UNCHANGED <<opc, out, paged>>
                ELSE Paginate(acc')
        /\ UNCHANGED faults
     \/ Rejects("release") /\ UNCHANGED <<todo, acc, paged, replies>>
  /\ UNCHANGED <<req, opts, attempt, pgin, caught>>
  /\ UNCHANGED <<held, flagged, compiled>>
  /\ UNCHANGED <<cursorVars, pageVars, moreVars>>

\* getThreadContext: await client.fetchOne(String(uid), ...).  The target is
\* absent (false, or a record without source) or carries its headers
FetchOne ==
  /\ opc = "fetchOne"
  /\ req.op = "thread"
  /\ calls' = Logged("fetchOne", UidTo(req.uid, req.uid))
  /\ \/ /\ \/ /\ out' = Null
              /\ opc' = "release"
              /\ UNCHANGED <<todo, acc, paged>>
           \/ /\ req.uid \in req.mailbox
              /\ \E ids \in {relatedIds(req.target)} :
                   /\ acc' = NewUidSet(req.uid)
                   /\ todo' = ThreadQueries(ids)
                   /\ IF ids = <<>>
                      THEN Paginate(acc')
                      ELSE opc' = "search" /\ UNCHANGED <<out, paged>>
        /\ flagged' = FlagsAfterFetch(flagged, LockOptions(req.op),
                                      {req.uid} \cap req.mailbox)
        /\ UNCHANGED faults
     \/ Rejects("release") /\ UNCHANGED <<todo, acc, paged, flagged>>
  /\ UNCHANGED <<req, opts, attempt, pgin, caught>>
  /\ UNCHANGED <<held, replies, compiled>>
  /\ UNCHANGED <<cursorVars, pageVars, moreVars>>

\* getMessage: fetchOne with source, null for an absent message.
\* listAttachments: fetchOne of the body structure, null for an absent
\* message, the attachments when the structure is there, else a second
\* fetchOne for the source
FetchMessage ==
  /\ opc \in {"fetchOne", "fetchSource"}
  /\ req.op \in {"message", "attachments"}
  /\ calls' = Logged("fetchOne", UidTo(req.uid, req.uid))
  /\ \/ /\ \/ /\ opc = "fetchOne"
              /\ out' = Null
              /\ opc' = "release"
           \/ /\ opc = "fetchSource" \/ req.uid \in req.mailbox
              /\ out' = Ok(<<req.uid>>, <<>>)
              /\ opc' = "release"
           \/ /\ opc = "fetchOne"
              /\ req.op = "attachments"
              /\ req.uid \in req.mailbox
              /\ out' = out
              /\ opc' = "fetchSource"
        /\ flagged' = FlagsAfterFetch(flagged, LockOptions(req.op),
                                      {req.uid} \cap req.mailbox)
        /\ UNCHANGED faults
     \/ Rejects("release") /\ UNCHANGED flagged
  /\ UNCHANGED <<req, opts, attempt, todo, acc, pgin, paged, caught>>
  /\ UNCHANGED <<held, replies, compiled>>
  /\ UNCHANGED <<cursorVars, pageVars, moreVars>>

\* a cursor for every full first page, even the page that ends the mailbox
FastPathCursorFullPage(total, limit, sorted) ==
  IF total >= limit /\ Len(sorted) > 0
  THEN encodeCursor(sorted[Len(sorted)])
  ELSE <<>>

\* line 408: total > opts.limit && items.length > 0 ? encodeCursor(...)
FastPathCursor(total, limit, sorted) ==
  IF total > limit /\ Len(sorted) > 0
  THEN encodeCursor(sorted[Len(sorted)])
  ELSE <<>>

\* listMessagesPage without cursor, lines 403-409: fetch by sequence range
FetchRange ==
  /\ opc = "range"
  /\ calls' = Logged("fetch", Head(todo))
  /\ \/ /\ \E fetched \in FetchYields(FetchBySeq(req.mailbox, Head(todo).lo,
                                              Head(todo).hi)) :
             /\ \E sorted \in {sortEnvelopes(fetched, opts.sort)} :
                  out' = Ok(sorted,
                            FastPathCursor(Cardinality(req.mailbox),
                                           opts.limit, sorted))
             /\ flagged' = FlagsAfterFetch(flagged, LockOptions(req.op),
                                           Range(fetched))
        /\ opc' = "release"
        /\ UNCHANGED faults
     \/ Rejects("release") /\ UNCHANGED flagged
  /\ todo' = <<>>
  /\ UNCHANGED <<req, opts, attempt, acc, pgin, paged, caught>>
  /\ UNCHANGED <<held, replies, compiled>>
  /\ UNCHANGED <<cursorVars, pageVars, moreVars>>

\* fetchEnvelopesByUids on a page that is not empty, then sortEnvelopes
Fetch ==
  /\ opc = "fetch"
  /\ calls' = Logged("fetch", [k |-> "uids", uids |-> paged.pageUids])
  /\ \/ /\ \E fetched \in FetchYields(FetchByUids(req.mailbox, paged.pageUids)) :
             /\ out' = Ok(sortEnvelopes(fetched, opts.sort), paged.nextCursor)
             /\ flagged' = FlagsAfterFetch(flagged, LockOptions(req.op),
                                           Range(fetched))
        /\ opc' = "release"
        /\ UNCHANGED faults
     \/ Rejects("release") /\ UNCHANGED flagged
  /\ UNCHANGED <<req, opts, attempt, todo, acc, pgin, paged, caught>>
  /\ UNCHANGED <<held, replies, compiled>>
  /\ UNCHANGED <<cursorVars, pageVars, moreVars>>

\* finally { lock.release() }
Release ==
  /\ opc = "release"
  /\ calls' = Logged("release", NoArg)
  /\ held' = held - 1
  /\ opc' = "logout"
  /\ UNCHANGED <<req, opts, attempt, todo, acc, pgin, paged, out, caught, faults>>
  /\ UNCHANGED <<flagged, replies, compiled>>
  /\ UNCHANGED <<cursorVars, pageVars, moreVars>>

\* finally { await client.logout() }: a failing logout is thrown on
LogoutThrows ==
  /\ opc = "logout"
  /\ calls' = Logged("logout", NoArg)
  /\ opc' = "settle"
  /\ \/ UNCHANGED <<faults, out>>
     \/ /\ faults < MaxFaults /\ faults' = faults + 1
        /\ \E e \in StoreErrors : out' = Throw(e)
  /\ UNCHANGED <<req, opts, attempt, todo, acc, pgin, paged, caught>>
  /\ UNCHANGED <<held, flagged, replies, compiled>>
  /\ UNCHANGED <<cursorVars, pageVars, moreVars>>

\* finally { await safeLogout(client) }: a failing logout is swallowed
Logout ==
  /\ opc = "logout"
  /\ calls' = Logged("logout", NoArg)
  /\ opc' = "settle"
  /\ \/ UNCHANGED faults
     \/ faults < MaxFaults /\ faults' = faults + 1
  /\ UNCHANGED <<req, opts, attempt, todo, acc, pgin, paged, out, caught>>
  /\ UNCHANGED <<held, flagged, replies, compiled>>
  /\ UNCHANGED <<cursorVars, pageVars, moreVars>>

\* return await run(): the run's result is the operation's
Return ==
  /\ opc = "settle"
  /\ out.t # "throw"
  /\ opc' = "done"
  /\ UNCHANGED <<req, opts, attempt, calls, todo, acc, pgin, paged, out, caught, faults>>
  /\ UNCHANGED <<held, flagged, replies, compiled>>
  /\ UNCHANGED <<cursorVars, pageVars, moreVars>>

\* a retry from inside the failed run: the second run() starts while the
\* first has yet to log out
RetryBeforeLogout ==
  /\ opc = "logout"
  /\ out.t = "throw"
  /\ attempt = 1
  /\ isConnectionError(out.err)
  /\ caught' = out.err
  /\ attempt' = 2
  /\ opc' = "run"
  /\ todo' = <<>> /\ acc' = <<>> /\ pgin' = NoInput /\ paged' = NoPage
  /\ out' = NoOut
  /\ replies' = <<>>
  /\ UNCHANGED <<req, opts, calls, faults>>
  /\ UNCHANGED <<held, flagged, compiled>>
  /\ UNCHANGED <<cursorVars, pageVars, moreVars>>

\* a retry whose run() shares the collected uids with the failed run
RetryKeepsCollected ==
  /\ opc = "settle"
  /\ out.t = "throw"
  /\ attempt = 1
  /\ isConnectionError(out.err)
  /\ caught' = out.err
  /\ attempt' = 2
  /\ opc' = "run"
  /\ todo' = <<>> /\ acc' = acc /\ pgin' = NoInput /\ paged' = NoPage
  /\ out' = NoOut
  /\ replies' = <<>>
  /\ UNCHANGED <<req, opts, calls, faults>>
  /\ UNCHANGED <<held, flagged, compiled>>
  /\ UNCHANGED <<cursorVars, pageVars, moreVars>>

\* catch (err) { if (isConnectionError(err)) return await run(); ... }:
\* the locals of the new run() are fresh
Retry ==
  /\ opc = "settle"
  /\ out.t = "throw"
  /\ attempt = 1
  /\ isConnectionError(out.err)
  /\ caught' = out.err
  /\ attempt' = 2
  /\ opc' = "run"
  /\ todo' = <<>> /\ acc' = <<>> /\ pgin' = NoInput /\ paged' = NoPage
  /\ out' = NoOut
  /\ replies' = <<>>
  /\ UNCHANGED <<req, opts, calls, faults>>
  /\ UNCHANGED <<held, flagged, compiled>>
  /\ UNCHANGED <<cursorVars, pageVars, moreVars>>

\* catch (err) { ...; throw err }, and an error of the second run()
Rethrow ==
  /\ opc = "settle"
  /\ out.t = "throw"
  /\ attempt = 2 \/ ~isConnectionError(out.err)
  /\ caught' = IF attempt = 1 THEN out.err ELSE caught
  /\ opc' = "done"
  /\ UNCHANGED <<req, opts, attempt, calls, todo, acc, pgin, paged, out, faults>>
  /\ UNCHANGED <<held, flagged, replies, compiled>>
  /\ UNCHANGED <<cursorVars, pageVars, moreVars>>

NextOps ==
  \/ \E r \in Requests : Call(r)
  \/ GetClient
  \/ Connect
  \/ ListFolders
  \/ Status
  \/ Lock
  \/ Search
  \/ FetchOne
  \/ FetchMessage
  \/ FetchRange
  \/ Fetch
  \/ Release
  \/ Logout
  \/ Return
  \/ Retry
  \/ Rethrow

SpecOps == InitOps /\ [][NextOps]_vars

(***************************************************************************)
(* What the claims speak of.                                               *)
(***************************************************************************)
\* the distinct positive uids of a match list
Positives(list) == {u \in Range(list) : u > 0}

\* u comes strictly before v in direction dir
Before(u, v, dir) == IF dir = "asc" THEN u < v ELSE u > v

StrictlyOrdered(list, dir) ==
  \A i \in 1..(Len(list) - 1) : Before(list[i], list[i + 1], dir)

\* the direction a sort input stands for: descending unless "asc"
DirectionOf(sort) == IF sort = "asc" THEN "asc" ELSE "desc"

\* max(1, min(requested-or-default, ceiling))
EffectiveLimit(input) ==
  LET requested == IF input.limit.t = "num"
                   THEN input.limit.n \div input.limit.d
                   ELSE PaginateDefaultLimit
      ceiling == IF input.maxResults.t = "num"
                 THEN input.maxResults.n \div input.maxResults.d
                 ELSE PaginateDefaultMax
  IN Max(1, Min(requested, ceiling))

\* the uids of the match list strictly past the boundary of the cursor
Candidates(list, input) ==
  LET b == decodeCursor(input.cursor)
  IN {u \in Positives(list) :
        b.t = "undef" \/ Before(b.n, u, DirectionOf(input.sort))}

\* C1: a page holds at most L uids (L the effective limit), strictly ordered
\* by the direction, without duplicates, each a positive element of S.
C1_PageBounded ==
  (ppc = "paged" /\ page.t = "ok") =>
    /\ Len(page.pageUids) <= EffectiveLimit(pin)
    /\ EffectiveLimit(pin) >= 1
    /\ StrictlyOrdered(page.pageUids, DirectionOf(pin.sort))
    /\ Cardinality(Range(page.pageUids)) = Len(page.pageUids)
    /\ Range(page.pageUids) \subseteq Positives(matched)

\* a cursor-less call on a list with a duplicate and a non-positive value,
\* cut to the limit
C1_Witness ==
  /\ ppc = "paged" /\ page.t = "ok" /\ pin.cursor = <<>>
  /\ Len(matched) > Cardinality(Range(matched))
  /\ \E i \in 1..Len(matched) : matched[i] <= 0
  /\ Len(page.pageUids) = EffectiveLimit(pin)
  /\ Cardinality(Positives(matched)) > 0

\* C2: a chain from no cursor through every nextCursor returns exactly the
\* distinct positive elements of S in direction order: nothing twice at any
\* point of the chain, nothing missing at its end.
C2_ChainComplete ==
  (chain /\ ppc = "paged" /\ page.t = "ok") =>
    /\ StrictlyOrdered(items, DirectionOf(pin.sort))
    /\ Range(items) \subseteq Positives(matched)
    /\ page.nextCursor = <<>> => Range(items) = Positives(matched)

\* a chain of at least two pages that has ended
C2_Witness ==
  /\ chain /\ ppc = "paged" /\ page.t = "ok"
  /\ page.nextCursor = <<>>
  /\ pin.cursor # <<>>
  /\ Len(items) > Len(page.pageUids)
  /\ Len(items) >= 3

\* C3: nextCursor is present exactly when more candidates lie past the
\* boundary than the page holds, and then decodes to the page's last uid.
C3_NextCursorIff ==
  (ppc = "paged" /\ page.t = "ok") =>
    /\ (page.nextCursor # <<>>) <=>
         (Cardinality(Candidates(matched, pin)) > Len(page.pageUids))
    /\ page.nextCursor # <<>> =>
         /\ Len(page.pageUids) > 0
         /\ decodeCursor(page.nextCursor) = JsNum(page.pageUids[Len(page.pageUids)])

\* a page reached through a cursor that itself carries a nextCursor
C3_Witness ==
  /\ ppc = "paged" /\ page.t = "ok"
  /\ pin.cursor # <<>>
  /\ page.nextCursor # <<>>

\* C4: a well-formed cursor is a threshold: the page is the first L of the
\* uids strictly past the boundary, whether or not the boundary is matched.
C4_CursorIsThreshold ==
  (ppc = "paged" /\ pin.cursor # <<>> /\ decodeCursor(pin.cursor).t = "num") =>
    LET dir == DirectionOf(pin.sort)
        b == decodeCursor(pin.cursor).n
        cand == Candidates(matched, pin)
        got == Range(page.pageUids)
    IN /\ page.t = "ok"
       /\ \A u \in got : IF dir = "asc" THEN u > b ELSE u < b
       /\ got \subseteq cand
       /\ Len(page.pageUids) = Min(EffectiveLimit(pin), Cardinality(cand))
       /\ \A u \in got : \A v \in cand \ got : Before(u, v, dir)

\* a caller's cursor whose boundary is not in the match set, with a page
\* that is not empty
C4_Witness ==
  /\ ppc = "paged" /\ ~chain /\ page.t = "ok"
  /\ decodeCursor(pin.cursor).t = "num"
  /\ decodeCursor(pin.cursor).n \notin Range(matched)
  /\ decodeCursor(pin.cursor).n <= MaxUid
  /\ page.pageUids # <<>>

\* C6: decodeCursor(encodeCursor(n)) = n for every positive integer n.
C6_RoundTrip ==
  (cpc = "decoded" /\ encOf > 0) => dec = JsNum(encOf)

\* a three-digit uid encoded and decoded
C6_Witness ==
  cpc = "decoded" /\ encOf >= 100 /\ dec.t = "num"

\* C7: decodeCursor returns absent (only for an absent or empty cursor), or
\* a positive integer, or fails with 'Invalid cursor value'.
C7_FailClosed ==
  cpc = "decoded" =>
    \/ cur = <<>> /\ dec = Undefined
    \/ cur # <<>> /\ dec.t = "num" /\ dec.n % dec.d = 0 /\ dec.n \div dec.d >= 1
    \/ cur # <<>> /\ dec = Thrown(InvalidCursorMessage)

\* a caller's cursor whose payload is the number 0, rejected
C7_Witness ==
  /\ cpc = "decoded" /\ encOf = 0
  /\ cur = ToBase64Url(<<48>>)
  /\ dec = Thrown(InvalidCursorMessage)

(***************************************************************************)
(* What the claims about the operations speak of.                          *)
(***************************************************************************)
\* the names of the calls made by attempt a, in order
NamesOf(a) ==
  With(SelectSeq(calls, LAMBDA c : c.att = a), LAMBDA cs :
    [i \in 1..Len(cs) |-> cs[i].name])

\* how many calls of that name the operation has made, all attempts together
Count(name) == Cardinality({i \in 1..Len(calls) : calls[i].name = name})

IsValidationError(err) == err.kind = "validation"
IsCursorError(err) ==
  IsValidationError(err) /\ err.msg = Words(InvalidCursorMessage)
IsFlagsError(err) == IsValidationError(err) /\ err.msg = SeenUnseenMessage
\* Invalid <field>: <value>. Use ISO date format like YYYY-MM-DD.
IsDateError(err) ==
  /\ IsValidationError(err)
  /\ Len(err.msg) > 3
  /\ err.msg[1] = W("Invalid")
  /\ err.msg[3] = W(":")

\* a validation error has just been raised: the finally blocks are yet to run
ValidationRaised ==
  opc = "release" /\ out.t = "throw" /\ IsValidationError(out.err)

\* C5: listMessagesPage called with a well-formed cursor decoding to c
\* returns only messages strictly past c in the sort direction (ascending:
\* uid > c; descending: uid < c), for every mailbox content.
C5_ListPastCursor ==
  (opc = "done" /\ req.op = "list" /\ out.t = "ok" /\ opts.cursor # <<>>) =>
    \A i \in 1..Len(out.items) :
      Before(decodeCursor(opts.cursor).n, out.items[i], opts.sort)

C9_AdvancedValidationCleanup ==
  (/\ opc = "done"
   /\ req.op = "advanced"
   /\ faults = 0
   /\ out.t = "throw"
   /\ IsDateError(out.err) \/ IsFlagsError(out.err)) =>
    /\ Count("search") = 0
    /\ Count("release") = 1
    /\ Count("logout") = 1

\* C10: a validation error is never retried: no second run() follows a
\* caught validation error, and when no store call fails the caller gets
\* the error after exactly one client was created, connected and logged out.
C10_ValidationNeverRetried ==
  /\ IsValidationError(caught) => attempt = 1
  /\ (opc = "done" /\ faults = 0 /\ out.t = "throw"
        /\ IsValidationError(out.err)) =>
       /\ Count("getClient") = 1
       /\ Count("connect") = 1
       /\ Count("logout") = 1


\* how many calls of that name attempt a has made
CountIn(a, name) ==
  Cardinality({i \in 1..Len(calls) :
                 calls[i].att = a /\ calls[i].name = name})

\* the error is a failure of the connection to the store, not an error the
\* operation raised itself
IsConnectionFailure(err) == err.kind = "store" /\ isConnectionError(err)

\* C11: every operation runs its body at most twice per call: a second
\* attempt is made only when the first attempt failed with a connection
\* error, any other error is propagated unchanged after one attempt, and an
\* error of the second attempt is propagated without a third attempt.
C11_RetryOnlyOnConnectionError ==
  /\ attempt <= 2
  /\ Count("getClient") <= 2
  /\ attempt = 2 => IsConnectionFailure(caught)
  /\ (opc = "done" /\ out.t = "throw" /\ attempt = 1) =>
       out.err = caught /\ ~IsConnectionFailure(caught)



\* the positions of an operation at which its attempt holds the mailbox lock
LockedSteps == {"search", "range", "fetch", "fetchOne", "fetchSource", "release"}

\* the attempt has left run(): both finally blocks are behind it
AttemptOver == opc \in {"settle", "done"} /\ attempt >= 1

\* C12: on every exit path of every attempt, each lock the attempt acquired
\* is released exactly once and logout is called exactly once on the
\* attempt's client; an attempt whose connect or getMailboxLock failed
\* releases nothing and still logs out once.
C12_ScopedAcquisition ==
  /\ held = IF opc \in LockedSteps THEN 1 ELSE 0
  /\ \A a \in 1..attempt :
       (a < attempt \/ AttemptOver) =>
         /\ CountIn(a, "logout") = 1
         /\ CountIn(a, "getClient") = 1
         /\ CountIn(a, "release") <= 1
         /\ CountIn(a, "release") <= CountIn(a, "getMailboxLock")
  /\ \A i \in 1..Len(calls) :
       calls[i].name = "logout" =>
         \A j \in (i + 1)..Len(calls) : calls[j].att > calls[i].att

\* an attempt whose getMailboxLock failed is over: no release, one logout
C12_Witness ==
  /\ opc = "settle"
  /\ out.t = "throw"
  /\ CountIn(attempt, "getMailboxLock") = 1
  /\ CountIn(attempt, "release") = 0
  /\ CountIn(attempt, "logout") = 1

\* C13: the only calls made on the mail store are connect, list,
\* getMailboxLock (always read-only), search, fetch, fetchOne, status and
\* logout, next to the release of the lock; the flags of the mailbox are
\* never changed.
C13_ReadOnly ==
  /\ flagged = {}
  /\ \A i \in 1..Len(calls) :
       /\ calls[i].name \in {"getClient", "connect", "list", "getMailboxLock",
                             "search", "fetch", "fetchOne", "status",
                             "release", "logout"}
       /\ calls[i].name = "getMailboxLock" => calls[i].arg.readOnly

\* a message that is in the mailbox was fetched with its source
C13_Witness ==
  /\ opc = "done"
  /\ req.op = "message"
  /\ req.uid \in req.mailbox
  /\ out.t = "ok"
  /\ Count("fetchOne") >= 1


\* the uids a run() collects from the search results it was given, from
\* the uids it starts with
RECURSIVE Collect(_, _)
Collect(base, rs) ==
  IF rs = <<>> THEN base ELSE Collect(SetAddAll(base, Head(rs)), Tail(rs))

\* the uids a single attempt hands to paginateUids, from the search results
\* the store gave that attempt and nothing else
FreshUids ==
  CASE req.op = "thread" -> Collect(<<req.uid>>, replies)
    [] req.op = "folder" -> Collect(<<>>, replies)
    [] OTHER -> IF replies = <<>> THEN <<>> ELSE replies[Len(replies)]

\* the page a single attempt without failure computes from those uids
FreshPage ==
  paginateUids(FreshUids, PageInput(opts, Start(req, opts).cursor))

\* the operation has returned a page that came out of its searches
PageReturned ==
  /\ opc = "done"
  /\ out.t = "ok"
  /\ attempt >= 1
  /\ req.op \in PagedOps
  /\ Start(req, opts).t \in {"search", "fetchOne"}

\* C14: when the first attempt fails with a connection error and the second
\* succeeds, the result is the one a single attempt without failure gives on
\* the same store: it is computed from what the second attempt was given
\* alone, and nothing of the failed attempt is carried into it.
C14_RetryEquivalence ==
  PageReturned =>
    \E pg \in {FreshPage} :
      /\ pg.t = "ok"
      /\ out.nextCursor = pg.nextCursor
      /\ out.items = sortEnvelopes(FetchByUids(req.mailbox, pg.pageUids),
                                   opts.sort)
      /\ attempt = 2 => /\ IsConnectionFailure(caught)
                        /\ CountIn(2, "getClient") = 1
                        /\ CountIn(2, "connect") = 1

\* queryByFolderPage lost the connection after its first search, and its
\* second attempt returned messages
C14_Witness ==
  /\ PageReturned
  /\ attempt = 2
  /\ req.op = "folder"
  /\ CountIn(1, "search") >= 1
  /\ IsConnectionFailure(caught)
  /\ out.items # <<>>


(***************************************************************************)
(* paginateUids called twice on the same array and the same input object.  *)
(***************************************************************************)
TwiceLimits == {Undefined, JsNum(1)}

\* the argument array with the page spliced out of it
MatchedAfterSplice(matchedUids, pg) ==
  SelectSeq(matchedUids, LAMBDA v : \A i \in 1..Len(pg.pageUids) : pg.pageUids[i] # v)

\* the argument array once paginateUids has returned: Array.from(new Set())
\* of line 58 and slice() of lines 61 and 66 copy, so that filter, sort and
\* reverse never reach the caller's array
MatchedAfter(matchedUids, pg) == matchedUids

InitTwice ==
  /\ CursorIdle
  /\ MoreIdle
  /\ OpsIdle
  /\ ppc = "start"
  /\ matched \in SeqsUpTo(UidValues, MaxLen)
  /\ pin \in [cursor : PageCursors \cup {<<>>}, limit : TwiceLimits,
              maxResults : {Undefined}, sort : SortInputs]
  /\ page = NoPage
  /\ items = <<>>
  /\ chain = FALSE
  /\ again = NoPage

CallOnce ==
  /\ ppc = "start"
  /\ page' = paginateUids(matched, pin)
  /\ matched' = MatchedAfter(matched, page')
  /\ ppc' = "once"
  /\ UNCHANGED <<pin, items, chain, again>>
  /\ UNCHANGED <<cursorVars, opsVars, moreVars>>

CallAgain ==
  /\ ppc = "once"
  /\ again' = paginateUids(matched, pin)
  /\ matched' = MatchedAfter(matched, again')
  /\ ppc' = "twice"
  /\ UNCHANGED <<pin, page, items, chain>>
  /\ UNCHANGED <<cursorVars, opsVars, moreVars>>

NextTwice == CallOnce \/ CallAgain

SpecTwice == InitTwice /\ [][NextTwice]_vars

TextValues == {<<>>, <<W("x")>>}

CompileCriteria ==
  {[PlainAdvanced EXCEPT !.seen = s, !.unseen = u, !.date = d,
                         !.dateFrom = f, !.dateTo = t, !.sentDate = sd,
                         !.sentDateFrom = sf, !.sentDateTo = st] :
     s \in BOOLEAN, u \in BOOLEAN,
     d \in {<<>>, BareDay, NotADate},
     f \in {<<>>, BareDay, NextDay, DayNoon, NotADate},
     t \in {<<>>, BareDay, DayNoon, NotADate},
     sd \in {<<>>, DayNoon, NotADate},
     sf \in {<<>>, BareDay, NextDay, DayNoon, NotADate},
     st \in {<<>>, BareDay, DayNoon, NotADate}}
  \cup
  {[PlainAdvanced EXCEPT !.keyword = k, !.sender = fr, !.receiver = to,
                         !.cc = cc, !.bcc = bcc, !.subject = su,
                         !.body = bo, !.messageId = id, !.dateTo = t] :
     k \in TextValues, fr \in TextValues, to \in TextValues,
     cc \in TextValues, bcc \in TextValues, su \in TextValues,
     bo \in TextValues, id \in TextValues, t \in {<<>>, BareDay}}

CompileOptions ==
  [cursor : {<<>>, MalformedCursor}, limit : {JsNum(1)},
   maxResults : {Undefined}, sort : {"asc"}]

CompileRequests ==
  [op : {"advanced"}, mailbox : {{}}, options : CompileOptions,
   criteria : CompileCriteria]

InitCompile ==
  /\ CursorIdle
  /\ MoreIdle
  /\ PageIdle
  /\ opc = "criteria"
  /\ req \in CompileRequests
  /\ opts = resolveListOptions(req.options, ListDefaultLimit)
  /\ attempt = 0 /\ calls = <<>> /\ todo = <<>> /\ acc = <<>>
  /\ pgin = NoInput /\ paged = NoPage /\ out = NoOut /\ caught = NoErr
  /\ faults = 0 /\ held = 0 /\ flagged = {} /\ replies = <<>>
  /\ compiled = NoCompiled

\* lines 602-637: the checks and the query object
Compile ==
  /\ opc = "criteria"
  /\ compiled' = AdvancedStart(req.criteria, opts)
  /\ opc' = "compiled"
  /\ UNCHANGED <<req, opts, attempt, calls, todo, acc, pgin, paged, out>>
  /\ UNCHANGED <<caught, faults, held, flagged, replies>>
  /\ UNCHANGED <<cursorVars, pageVars, moreVars>>

\* line 639: client.search(query, { uid: true }), reached when nothing threw
SendQuery ==
  /\ opc = "compiled"
  /\ compiled.t = "search"
  /\ calls' = Logged("search", Head(compiled.todo))
  /\ opc' = "sent"
  /\ UNCHANGED <<req, opts, attempt, todo, acc, pgin, paged, out>>
  /\ UNCHANGED <<caught, faults, held, flagged, replies, compiled>>
  /\ UNCHANGED <<cursorVars, pageVars, moreVars>>

NextCompile == Compile \/ SendQuery

SpecCompile == InitCompile /\ [][NextCompile]_vars


\* the compiler has run on the criteria
Compiled == opc \in {"compiled", "sent"}

\* C16: searchMailAdvancedPage fails with a validation error whenever
\* criteria.seen and criteria.unseen are both true, whatever the other
\* criteria fields and the pagination options are, and it never sends a
\* query that carries both read-state meanings.
C16_SeenUnseenRejected ==
  /\ (Compiled /\ req.criteria.seen /\ req.criteria.unseen) =>
       /\ compiled.t = "throw"
       /\ compiled.err = ValidationError(SeenUnseenMessage)
       /\ Count("search") = 0
  /\ \A i \in 1..Len(calls) :
       calls[i].name = "search" =>
         /\ ~(req.criteria.seen /\ req.criteria.unseen)
         /\ calls[i].arg.seen = "true" <=> req.criteria.seen
         /\ calls[i].arg.seen = "false" <=> req.criteria.unseen
         /\ calls[i].arg.seen = "absent" <=>
              ~req.criteria.seen /\ ~req.criteria.unseen

\* both flags are set next to an unparsable date and a malformed cursor
C16_Witness ==
  /\ Compiled
  /\ req.criteria.seen /\ req.criteria.unseen
  /\ req.criteria.dateFrom = NotADate
  /\ req.options.cursor = MalformedCursor
  /\ compiled.t = "throw"


\* the text is a date that new Date() understands
Parses(value) == NewDate(value).t = "date"
Unparsable(value) == value # <<>> /\ ~Parses(value)

\* the instant an upper bound stands for: a bare day counts as one day later
UpperBound(value) ==
  IF IsBareDay(value) THEN Instant(NewDate(value).day + 1, 0)
  ELSE NewDate(value)

DateFields ==
  <<"date", "dateFrom", "dateTo", "sentDate", "sentDateFrom", "sentDateTo">>

\* the read-state flags agree and no date field is unparsable
ChecksAheadPass(c) ==
  /\ ~(c.seen /\ c.unseen)
  /\ \A i \in 1..Len(DateFields) : ~Unparsable(c[DateFields[i]])

\* lower >= upper once the upper bound is adjusted
RangeInverted(from, to) ==
  Parses(from) /\ Parses(to) /\ DateGeq(NewDate(from), UpperBound(to))

SuppliedInOrder(from, to) ==
  (Parses(from) /\ Parses(to)) => DateGeq(NewDate(to), NewDate(from))

\* C18: on each date axis a range whose 'from' instant is earlier than or
\* equal to its 'to' instant, as the caller supplied them, is accepted by
\* searchMailAdvancedPage; only a 'from' strictly later than 'to' is a
\* validation error.
C18_OrderedRangeAccepted ==
  (/\ Compiled
   /\ ChecksAheadPass(req.criteria)
   /\ SuppliedInOrder(req.criteria.dateFrom, req.criteria.dateTo)
   /\ SuppliedInOrder(req.criteria.sentDateFrom, req.criteria.sentDateTo))
  => compiled.t = "search"

\* C19: a bare calendar day given as dateTo or sentDateTo compiles to a
\* 'before' bound exactly 24 h after the start of that day, strictly after
\* the day's last millisecond; a full date-time upper bound compiles to the
\* instant given; dateFrom, sentDateFrom, date and sentDate are never
\* day-adjusted.
C19_UpperBoundAsymmetry ==
  (Compiled /\ compiled.t = "search") =>
    \E c \in {req.criteria} : \E q \in {Head(compiled.todo)} :
      /\ \A pair \in {<<c.dateTo, q.before>>, <<c.sentDateTo, q.sentBefore>>} :
           /\ pair[1] = <<>> => pair[2] = NoDate
           /\ IsBareDay(pair[1]) =>
                /\ pair[2] = Instant(NewDate(pair[1]).day + 1, 0)
                /\ DateGeq(pair[2], Instant(NewDate(pair[1]).day, MsPerDay - 1))
                /\ pair[2] # Instant(NewDate(pair[1]).day, MsPerDay - 1)
           /\ (pair[1] # <<>> /\ ~IsBareDay(pair[1])) =>
                pair[2] = NewDate(pair[1])
      /\ \A pair \in {<<c.date, q.on>>, <<c.dateFrom, q.since>>,
                      <<c.sentDate, q.sentOn>>,
                      <<c.sentDateFrom, q.sentSince>>} :
           pair[2] = IF pair[1] = <<>> THEN NoDate ELSE NewDate(pair[1])

\* a bare day as dateTo and as dateFrom, a date-time as sentDateTo
C19_Witness ==
  /\ opc = "sent"
  /\ req.criteria.dateTo = BareDay
  /\ req.criteria.dateFrom = BareDay
  /\ req.criteria.date = BareDay
  /\ req.criteria.sentDateTo = DayNoon
  /\ Head(compiled.todo).before = NewDate(NextDay)

\* the first of the date fields, in the order they are parsed, that holds an
\* unparsable value
FirstUnparsable(c) ==
  DateFields[CHOOSE i \in 1..Len(DateFields) :
               /\ Unparsable(c[DateFields[i]])
               /\ \A j \in 1..(i - 1) : ~Unparsable(c[DateFields[j]])]

\* C20: each date field of searchMailAdvancedPage (date, dateFrom, dateTo,
\* sentDate, sentDateFrom, sentDateTo) is parsed on its own, and an
\* unparsable value in any of them fails the operation with an error that
\* names that field and echoes the value; an absent or empty field is never
\* an error.
C20_DateFieldErrors ==
  (Compiled /\ ~(req.criteria.seen /\ req.criteria.unseen)) =>
    \E c \in {req.criteria} :
      /\ (\E i \in 1..Len(DateFields) : Unparsable(c[DateFields[i]])) <=>
           (compiled.t = "throw" /\ IsDateError(compiled.err))
      /\ (compiled.t = "throw" /\ IsDateError(compiled.err)) =>
           \E f \in {FirstUnparsable(c)} :
             /\ compiled.err.msg[2] = W(f)
             /\ SubSeq(compiled.err.msg, 4, 3 + Len(c[f])) = c[f]
      /\ (\A i \in 1..Len(DateFields) : c[DateFields[i]] = <<>>) =>
           compiled.t = "search"

\* sentDateTo alone is unparsable, next to a dateFrom that parses
C20_Witness ==
  /\ Compiled
  /\ ~(req.criteria.seen /\ req.criteria.unseen)
  /\ req.criteria.dateFrom = BareDay
  /\ req.criteria.date = <<>>
  /\ req.criteria.sentDateTo = NotADate
  /\ compiled.t = "throw"
  /\ compiled.err.msg[2] = W("sentDateTo")


\* C21: the query searchMailAdvancedPage sends is a flat conjunction with
\* no OR: it holds a term for a dimension if and only if that dimension is
\* set to a non-empty value (keyword, sender, receiver, cc, bcc, subject,
\* body, messageId, read state and each of the six date fields), and its
\* terms depend on the criteria alone, not on the pagination options.
C21_FlatConjunction ==
  (Compiled /\ compiled.t = "search") =>
    \E c \in {req.criteria} : \E q \in {Head(compiled.todo)} :
      /\ Len(compiled.todo) = 1
      /\ DOMAIN q = {"k", "text", "from", "to", "cc", "bcc", "subject",
                     "body", "seen", "header", "on", "since", "before",
                     "sentOn", "sentSince", "sentBefore"}
      /\ q.k = "advanced"
      /\ q.text = c.keyword /\ q.from = c.sender /\ q.to = c.receiver
      /\ q.cc = c.cc /\ q.bcc = c.bcc /\ q.subject = c.subject
      /\ q.body = c.body /\ q.header = c.messageId
      /\ q.seen # "absent" <=> (c.seen \/ c.unseen)
      /\ \A pair \in {<<c.date, q.on>>, <<c.dateFrom, q.since>>,
                      <<c.dateTo, q.before>>, <<c.sentDate, q.sentOn>>,
                      <<c.sentDateFrom, q.sentSince>>,
                      <<c.sentDateTo, q.sentBefore>>} :
           pair[2].t = "date" <=> pair[1] # <<>>
      /\ \A o \in CompileOptions :
           AdvancedStart(c, resolveListOptions(o, ListDefaultLimit)).todo
             = compiled.todo

\* a query with a bcc and a subject term, no keyword term
\* and one date term was sent
C21_Witness ==
  /\ opc = "sent"
  /\ req.criteria.bcc # <<>> /\ req.criteria.subject # <<>>
  /\ req.criteria.keyword = <<>>
  /\ req.criteria.dateTo = BareDay
  /\ Head(compiled.todo).bcc # <<>>
  /\ Head(compiled.todo).text = <<>>


\* the uids the searches of the current run() have returned
Returned == UNION {Range(replies[i]) : i \in 1..Len(replies)}

\* the queries of the searches attempt a has issued, in order
SearchesOf(a) ==
  With(SelectSeq(calls, LAMBDA c : c.att = a /\ c.name = "search"), LAMBDA cs :
    [i \in 1..Len(cs) |-> cs[i].arg])

\* C22: getThreadContext paginates exactly the union of the uids returned by
\* the per-identifier searches (one per candidate id of the target's
\* Message-ID, In-Reply-To and References entries) together with the target
\* uid; the target is in the set even if no search returns it, and a uid
\* returned by several searches counts once.
C22_ThreadUnion ==
  (req.op = "thread" /\ paged.t # "none") =>
    /\ Range(acc) = {req.uid} \cup Returned
    /\ \A i, j \in 1..Len(acc) : acc[i] = acc[j] => i = j
    /\ paged = paginateUids(acc, PageInput(opts, opts.cursor))
    /\ SearchesOf(attempt) = ThreadQueries(relatedIds(req.target))
    /\ Len(replies) = Len(SearchesOf(attempt))

\* two searches both returned uid 2 and neither the target
C22_Witness ==
  /\ req.op = "thread"
  /\ opc = "done"
  /\ out.t = "ok"
  /\ replies = <<<<2>>, <<2>>>>
  /\ Range(acc) = {1, 2}


\* getThreadContext has fetched a target that is not in the mailbox
TargetAbsent ==
  /\ req.op = "thread"
  /\ req.uid \notin req.mailbox
  /\ CountIn(attempt, "fetchOne") = 1

\* what holds once the target has turned out absent
NullIsTerminal ==
  /\ TargetAbsent =>
       \/ out.t = "null"
       \/ out.t = "throw" /\ out.err.kind = "store"
  /\ (req.op = "thread" /\ out.t = "null") =>
       /\ opc \in {"release", "logout", "settle", "done"}
       /\ CountIn(attempt, "fetchOne") = 1
       /\ CountIn(attempt, "search") = 0
       /\ CountIn(attempt, "fetch") = 0
       /\ paged = NoPage

\* a null result stays the result: no step starts another attempt
NullStays ==
  (req.op = "thread" /\ out.t = "null") =>
    (out' = out /\ attempt' = attempt /\ opc' # "run")

\* C23: when the target message of getThreadContext does not exist (the
\* fetch returns nothing, or a record without source), the operation returns
\* the explicit null result instead of raising an error, issues no search
\* and no envelope fetch, and is not retried.
C23_NotFoundIsNull == []NullIsTerminal /\ [][NullStays]_vars

\* getThreadContext returned null from its first attempt
C23_Witness ==
  /\ req.op = "thread"
  /\ TargetAbsent
  /\ opc = "done"
  /\ out.t = "null"
  /\ attempt = 1


(***************************************************************************)
(* getThreadContext, lines 908-929: the search loop, with every search     *)
(* split into the request sent and the reply received.                     *)
(***************************************************************************)
\* the loop is entered: the lock is held and the target has been fetched
InitLoop ==
  /\ CursorIdle
  /\ PageIdle
  /\ opc = "loop"
  /\ req \in ThreadRequests
  /\ opts = resolveListOptions(req.options, ThreadDefaultLimit)
  /\ attempt = 1
  /\ calls = <<>>
  /\ todo = ThreadQueries(relatedIds(req.target))
  /\ acc = NewUidSet(req.uid)
  /\ pgin = PageInput(opts, opts.cursor)
  /\ paged = NoPage /\ out = NoOut /\ caught = NoErr
  /\ faults = 0 /\ held = 1 /\ flagged = {} /\ replies = <<>>
  /\ compiled = NoCompiled
  /\ inflight = {} /\ procs = <<>> /\ clients = <<>> /\ clamp = NoClamp
  /\ store = NoStore /\ snip = NoSnip /\ tool = NoTool
  /\ ncalls = 0

\* client.search(query, { uid: true }) whose promise is not awaited: the
\* loop goes on to its next id
AfterSearchSentNoAwait == "loop"

\* line 918: await client.search(query, { uid: true }) suspends the loop
AfterSearchSent == "await"

\* the loop body up to the search request of the next id
SendSearch ==
  /\ opc = "loop"
  /\ todo # <<>>
  /\ calls' = Logged("search", Head(todo))
  /\ inflight' = inflight \cup {[n |-> Len(calls) + 1, query |-> Head(todo)]}
  /\ todo' = Tail(todo)
  /\ opc' = AfterSearchSent
  /\ UNCHANGED <<req, opts, attempt, acc, pgin, paged, out, caught, faults>>
  /\ UNCHANGED <<held, flagged, replies, compiled, procs, clients, clamp, store,
               snip, tool, ncalls>>
  /\ UNCHANGED <<cursorVars, pageVars>>

\* the store answers a request; lines 919-921 add the uids, and the loop
\* resumes
ReceiveReply ==
  /\ \E r \in inflight :
       \E reply \in SearchReplies(req.mailbox, r.query) :
         /\ inflight' = inflight \ {r}
         /\ acc' = SetAddAll(acc, ArrayOrEmpty(reply))
         /\ replies' = Append(replies, ArrayOrEmpty(reply))
  /\ opc' = "loop"
  /\ UNCHANGED <<req, opts, attempt, calls, todo, pgin, paged, out, caught>>
  /\ UNCHANGED <<faults, held, flagged, compiled, procs, clients, clamp, store,
               snip, tool, ncalls>>
  /\ UNCHANGED <<cursorVars, pageVars>>

\* lines 924-929: the loop is over, paginateUids(Array.from(uidSet), ...)
LeaveLoop ==
  /\ opc = "loop"
  /\ todo = <<>>
  /\ paged' = paginateUids(acc, pgin)
  /\ opc' = "paged"
  /\ UNCHANGED <<req, opts, attempt, calls, todo, acc, pgin, out, caught>>
  /\ UNCHANGED <<faults, held, flagged, replies, compiled>>
  /\ UNCHANGED <<cursorVars, pageVars, moreVars>>

NextLoop == SendSearch \/ ReceiveReply \/ LeaveLoop

SpecLoop == InitLoop /\ [][NextLoop]_vars

\* C24: within one getThreadContext call the per-identifier searches are
\* issued strictly one at a time: a search starts only after the previous
\* one has returned, so that two store requests of the call are never
\* outstanding at once.
C24_OneSearchAtATime ==
  /\ Cardinality(inflight) <= 1
  /\ Count("search") = Len(replies) + Cardinality(inflight)
  /\ opc \in {"loop", "paged"} => inflight = {}
  /\ opc = "paged" => /\ Len(replies) = Len(relatedIds(req.target))
                      /\ Range(acc) = {req.uid} \cup Returned

\* the second search is outstanding, the first one has returned
C24_Witness ==
  /\ opc = "await"
  /\ Len(replies) = 1
  /\ Cardinality(inflight) = 1
  /\ Count("search") = 2


\* the distinct non-empty normalized identifiers found on the target
DistinctIds(target) ==
  {normalizeMessageId(v) :
     v \in {target.messageId, target.inReplyTo, target.envMessageId,
            target.envInReplyTo} \cup Range(target.references)} \ {<<>>}

\* C25: getThreadContext is a single-level, bounded expansion: one attempt
\* makes exactly one fetch of the target, followed by at most N searches,
\* N being the number of distinct non-empty normalized identifiers found on
\* the target alone; the headers of the messages found never start further
\* searches.
C25_BoundedExpansion ==
  req.op = "thread" =>
    \A a \in 1..attempt :
      /\ CountIn(a, "fetchOne") <= 1
      /\ CountIn(a, "search") > 0 => CountIn(a, "fetchOne") = 1
      /\ CountIn(a, "search") <= Cardinality(DistinctIds(req.target))


(***************************************************************************)
(* clampLimit(value, maxResults, defaultLimit) on its own.                 *)
(***************************************************************************)
ClampValues ==
  {Undefined, NaNValue, InfValue, JsString(5), JsFrac(5, 2), JsFrac(-1, 2),
   JsNum(100000)} \cup {JsNum(n) : n \in (-2)..3}
ClampCeilings ==
  {NaNValue, InfValue, JsNum(-1), JsNum(0), JsNum(1), JsNum(2), JsNum(200),
   JsFrac(5, 2)}
ClampDefaults ==
  {Undefined, NaNValue, InfValue, JsNum(0), JsNum(2), JsNum(50), JsFrac(7, 2)}

InitClamp ==
  /\ CursorIdle /\ PageIdle /\ OpsIdle
  /\ inflight = {} /\ procs = <<>> /\ clients = <<>> /\ store = NoStore
  /\ snip = NoSnip /\ tool = NoTool
  /\ ncalls = 0
  /\ clamp \in [t : {"args"}, value : ClampValues, maxResults : ClampCeilings,
                defaultLimit : ClampDefaults, result : {0}]

ClampCall ==
  /\ clamp.t = "args"
  /\ clamp' = [clamp EXCEPT
                 !.t = "result",
                 !.result = clampLimit(clamp.value, clamp.maxResults,
                                       clamp.defaultLimit)]
  /\ UNCHANGED <<inflight, procs, clients, store, snip, tool, ncalls>>
  /\ UNCHANGED <<cursorVars, pageVars, opsVars>>

NextClamp == ClampCall

SpecClamp == InitClamp /\ [][NextClamp]_vars

\* r of the claim: the floored requested value when it is a finite number,
\* else the default, floored and raised to 1, or 50 when it is not finite
RequestedOrDefault(value, defaultLimit) ==
  IF value.t = "num" THEN value.n \div value.d
  ELSE IF defaultLimit.t = "num"
       THEN Max(1, defaultLimit.n \div defaultLimit.d)
       ELSE 50

\* result = max(1, min(r, ceiling)) with the ceiling as it was passed:
\* min(r, NaN) is NaN, min(r, Infinity) is r, and a ceiling of n/d is kept
IsMaxOneMin(result, r, ceiling) ==
  CASE ceiling.t = "inf" -> result = Max(1, r)
    [] ceiling.t = "num" ->
         IF r * ceiling.d <= ceiling.n THEN result = Max(1, r)
         ELSE IF ceiling.n <= ceiling.d THEN result = 1
         ELSE ceiling.n % ceiling.d = 0 /\ result = ceiling.n \div ceiling.d
    [] OTHER -> FALSE

\* C26 as stated: for every requested value, ceiling and default, clampLimit
\* returns an integer equal to max(1, min(r, ceiling)).
C26_ClampAsStated ==
  clamp.t = "result" =>
    IsMaxOneMin(clamp.result,
                RequestedOrDefault(clamp.value, clamp.defaultLimit),
                clamp.maxResults)

\* the ceiling clampLimit works with: floored and raised to 1, or 200 when
\* the ceiling passed is not finite
EffectiveCeiling(maxResults) ==
  IF maxResults.t = "num" THEN Max(1, maxResults.n \div maxResults.d)
  ELSE 200

\* C26: for every requested value, ceiling and default, clampLimit returns
\* the integer max(1, min(r, c)), r being the floored requested value when
\* it is a finite number and else the default (floored and raised to 1, or
\* 50 when the default is not finite), c being the ceiling floored and
\* raised to 1, or 200 when the ceiling is not finite; clampLimit(100000,
\* 200, 50) = 200, clampLimit(-2, 200, 50) = 1, clampLimit(undefined, 200,
\* 50) = 50.
C26_ClampLimit ==
  clamp.t = "result" =>
    /\ clamp.result \in Int
    /\ clamp.result >= 1
    /\ clamp.result =
         Max(1, Min(RequestedOrDefault(clamp.value, clamp.defaultLimit),
                    EffectiveCeiling(clamp.maxResults)))
    /\ (clamp.maxResults = JsNum(200) /\ clamp.defaultLimit = JsNum(50)) =>
         /\ clamp.value = JsNum(100000) => clamp.result = 200
         /\ clamp.value = JsNum(-2) => clamp.result = 1
         /\ clamp.value = Undefined => clamp.result = 50

\* clampLimit(-2, 200, 50) has returned 1
C26_Witness ==
  /\ clamp.t = "result"
  /\ clamp.value = JsNum(-2)
  /\ clamp.maxResults = JsNum(200)
  /\ clamp.defaultLimit = JsNum(50)
  /\ clamp.result = 1


\* the arguments of the calls of that name attempt a has made, in order
ArgsOf(a, name) ==
  With(SelectSeq(calls, LAMBDA c : c.att = a /\ c.name = name), LAMBDA cs :
    [i \in 1..Len(cs) |-> cs[i].arg])

\* C27: listMessagesPage without a cursor issues no search at all (it
\* fetches one sequence range of at most limit messages: the last limit
\* messages when descending, the first limit when ascending); with a cursor
\* it issues exactly one search, restricted to the uid range past the
\* cursor.
C27_ListFastPath ==
  (req.op = "list" /\ attempt >= 1) =>
    \E total \in {Cardinality(req.mailbox)} :
      /\ opts.cursor = <<>> =>
           /\ Count("search") = 0
           /\ \A a \in 1..attempt :
                /\ Len(ArgsOf(a, "fetch")) <= 1
                /\ \A i \in 1..Len(ArgsOf(a, "fetch")) :
                     \E range \in {ArgsOf(a, "fetch")[i]} :
                       /\ range.k = "seq"
                       /\ range.hi - range.lo + 1 <= opts.limit
                       /\ opts.sort = "desc" => range.hi = total
                       /\ opts.sort = "asc" => range.lo = 1
           /\ (opc = "done" /\ out.t = "ok" /\ total > 0) =>
                Len(ArgsOf(attempt, "fetch")) = 1
      /\ opts.cursor # <<>> =>
           \A a \in 1..attempt :
             /\ Len(ArgsOf(a, "search")) <= 1
             /\ (a = attempt /\ opc = "done" /\ out.t = "ok") =>
                  Len(ArgsOf(a, "search")) = 1
             /\ \A i \in 1..Len(ArgsOf(a, "search")) :
                  \E query \in {ArgsOf(a, "search")[i]} :
                    /\ query.k = "uid"
                    /\ \A u \in 1..(MaxMail + 1) :
                         InUidRange(u, query) =>
                           Before(decodeCursor(opts.cursor).n, u, opts.sort)


(***************************************************************************)
(* Deterministic ordering of the returned items.                           *)
(***************************************************************************)
\* the worked example: uids {7, 10, 8, 9}, limit 2, newest first
ExampleMatched == <<7, 10, 8, 9>>

ExampleInput(cursor) ==
  [cursor |-> cursor, limit |-> JsNum(2), maxResults |-> Undefined,
   sort |-> "desc"]

ExamplePages ==
  With(paginateUids(ExampleMatched, ExampleInput(<<>>)), LAMBDA first :
    /\ first.t = "ok"
    /\ first.pageUids = <<10, 9>>
    /\ first.nextCursor = encodeCursor(9)
    /\ With(paginateUids(ExampleMatched, ExampleInput(first.nextCursor)),
            LAMBDA second :
         /\ second.t = "ok"
         /\ second.pageUids = <<8, 7>>
         /\ second.nextCursor = <<>>))

\* a paged operation has returned a page
ItemsReturned ==
  /\ opc = "done"
  /\ out.t = "ok"
  /\ req.op \in PagedOps

\* C28: the items every paged operation returns are ordered by uid in the
\* requested direction, descending unless "asc" is asked for, whatever the
\* order in which the store's search returned the uids and its fetch yielded
\* the records; uids {7, 10, 8, 9} with limit 2, newest first, give [10, 9]
\* and a cursor for 9, and the call with that cursor gives [8, 7].
C28_OrderedItems ==
  /\ ItemsReturned => StrictlyOrdered(out.items, DirectionOf(req.options.sort))
  /\ opc = "idle" => ExamplePages

\* a page of two items returned newest first
C28_Witness ==
  /\ ItemsReturned
  /\ DirectionOf(req.options.sort) = "desc"
  /\ Len(out.items) = 2
  /\ out.items[1] > out.items[2]


(***************************************************************************)
(* An empty match set.                                                     *)
(***************************************************************************)
\* the operations that paginate what the store's searches matched
SearchingOps == {"list", "search", "advanced", "folder"}

\* the cursors a caller may pass: none, or one a page has handed out
WellFormedCursors == {<<>>} \cup {encodeCursor(c) : c \in 1..MaxCursorUid}

\* the page of no uids: no page uids, no cursor, no error
IsEmptyPage(pg) ==
  /\ pg.t = "ok"
  /\ pg.pageUids = <<>>
  /\ pg.nextCursor = <<>>

\* paginateUids([], input) for every limit, ceiling, sort and cursor
EmptyListPages ==
  \A cursor \in WellFormedCursors, limit \in LimitInputs,
     maxResults \in MaxResultsInputs, sort \in SortInputs :
    IsEmptyPage(paginateUids(<<>>, [cursor |-> cursor, limit |-> limit,
                                    maxResults |-> maxResults,
                                    sort |-> sort]))

\* every search of the attempt came back empty (an empty list, or false) and
\* the attempt has paginated
EmptyMatch ==
  /\ req.op \in SearchingOps
  /\ req.options.cursor \in WellFormedCursors
  /\ replies # <<>>
  /\ \A i \in 1..Len(replies) : replies[i] = <<>>
  /\ paged.t # "none"

\* C29: an empty match set is never an error: paginateUids on an empty list,
\* and every paged search all of whose store searches return an empty list or
\* false, gives empty items and no nextCursor for every limit and sort and
\* for an absent or well-formed cursor, and the store is not asked for the
\* envelopes of the empty page.
C29_EmptyMatchIsEmptyPage ==
  /\ opc = "idle" => EmptyListPages
  /\ EmptyMatch =>
       /\ IsEmptyPage(paged)
       /\ out = Ok(<<>>, <<>>)
       /\ CountIn(attempt, "fetch") = 0

\* a search on a mailbox that has messages matched none of them, and the
\* operation has returned the empty page
C29_Witness ==
  /\ EmptyMatch
  /\ opc = "done"
  /\ req.mailbox # {}
  /\ out = Ok(<<>>, <<>>)


(***************************************************************************)
(* Two calls of searchMailPage side by side.  Each call has its own locals *)
(* (procs[p]); a step runs one call from one await to the next; the store  *)
(* is the same for both and does not change.                               *)
(***************************************************************************)
PairMailboxes == {"INBOX", "Archive"}

\* a mailbox of the store: the uids of its messages and the unseen ones
PairStores ==
  {[m \in PairMailboxes |->
      IF m = "INBOX" THEN [uids |-> 1..MaxMail, unseen |-> u]
      ELSE [uids |-> a, unseen |-> a]] : u \in {{}, {1}}, a \in {{}, {1}}}

PairOptions ==
  [cursor : {<<>>, encodeCursor(1)}, limit : {JsNum(1)},
   maxResults : {Undefined}, sort : {"asc", ""}]

PairInputs ==
  [mailbox : PairMailboxes, options : PairOptions,
   criteria : {PlainSearch, [PlainSearch EXCEPT !.unseen = TRUE]}]

\* the locals of a call that has not started
NewProc(input) ==
  [pc |-> "call", input |-> input, attempt |-> 0, opts |-> NoOptions,
   client |-> 0, paged |-> NoPage, out |-> NoOut]

\* a client as its constructor leaves it
FreshClient == [state |-> "new", selected |-> "", lockedBy |-> 0, users |-> {}]

\* a factory that hands every call the client it made first
NewClientCached(made) == 1

\* clientFactory(config): a new client each time
NewClient(made) == Len(made) + 1

\* what the store answers a search on a selected mailbox
StoreSearch(box, query) ==
  AscOf({u \in box.uids : query.seen = "false" => u \in box.unseen})

\* the query searchMailPage compiles
PairQuery(pr) == SearchStart(pr.input.criteria, pr.opts).todo[1]

InitPair ==
  /\ CursorIdle /\ PageIdle /\ OpsIdle
  /\ inflight = {} /\ clamp = NoClamp /\ snip = NoSnip /\ tool = NoTool
  /\ ncalls = 0
  /\ store \in PairStores
  /\ procs \in {<<NewProc(a), NewProc(b)>> : a, b \in PairInputs}
  /\ clients = <<>>

\* lock.release() of the lock call p holds
Released(cs, p) ==
  [c \in DOMAIN cs |->
     IF cs[c].lockedBy = p THEN [cs[c] EXCEPT !.lockedBy = 0] ELSE cs[c]]

\* the call ends its attempt with a result or an error: finally lock.release()
Finish(p, result) ==
  /\ procs' = [procs EXCEPT ![p].out = result, ![p].pc = "logout"]
  /\ clients' = Released(clients, p)

\* resolveListOptions, run(): getClient(config), client.connect() is called
PairRun(p) ==
  /\ procs[p].pc = "call"
  /\ \E c \in {NewClient(clients)} :
       /\ procs' = [procs EXCEPT
            ![p].opts = resolveListOptions(procs[p].input.options,
                                           ListDefaultLimit),
            ![p].attempt = procs[p].attempt + 1,
            ![p].client = c,
            ![p].pc = "connect"]
       /\ clients' =
            With(IF c > Len(clients) THEN Append(clients, FreshClient)
                 ELSE clients, LAMBDA cs :
              [cs EXCEPT ![c].users = cs[c].users \cup {p}])
  /\ UNCHANGED <<cursorVars, pageVars, opsVars, inflight, clamp, store, snip,
               tool, ncalls>>

\* await client.connect(); a client connects once
PairConnect(p) ==
  /\ procs[p].pc = "connect"
  /\ \E c \in {procs[p].client} :
       IF clients[c].state = "new"
       THEN /\ clients' = [clients EXCEPT ![c].state = "open"]
            /\ procs' = [procs EXCEPT ![p].pc = "lock"]
       ELSE /\ clients' = clients
            /\ procs' = [procs EXCEPT ![p].out = Throw(CommandFailed),
                                      ![p].pc = "logout"]
  /\ UNCHANGED <<cursorVars, pageVars, opsVars, inflight, clamp, store, snip,
               tool, ncalls>>

\* await client.getMailboxLock(mailbox, {readOnly: true}) resolves once the
\* client's lock is free; the query is compiled and client.search is called
PairLock(p) ==
  /\ procs[p].pc = "lock"
  /\ \E c \in {procs[p].client} :
       /\ clients[c].lockedBy = 0
       /\ IF clients[c].state # "open"
          THEN /\ clients' = clients
               /\ procs' = [procs EXCEPT ![p].out = Throw(ConnectionLost),
                                         ![p].pc = "logout"]
          ELSE IF SearchStart(procs[p].input.criteria, procs[p].opts).t
                    = "throw"
          THEN /\ clients' = clients
               /\ procs' = [procs EXCEPT
                    ![p].out = Throw(SearchStart(procs[p].input.criteria,
                                                 procs[p].opts).err),
                    ![p].pc = "logout"]
          ELSE /\ clients' = [clients EXCEPT
                    ![c].lockedBy = p,
                    ![c].selected = procs[p].input.mailbox]
               /\ procs' = [procs EXCEPT ![p].pc = "search"]
  /\ UNCHANGED <<cursorVars, pageVars, opsVars, inflight, clamp, store, snip,
               tool, ncalls>>

\* await client.search(query, {uid: true}) on the mailbox the client has
\* selected, then paginateUids
PairSearch(p) ==
  /\ procs[p].pc = "search"
  /\ \E c \in {procs[p].client} :
       IF clients[c].state # "open"
       THEN Finish(p, Throw(ConnectionLost))
       ELSE \E pg \in {paginateUids(
                         StoreSearch(store[clients[c].selected],
                                     PairQuery(procs[p])),
                         PageInput(procs[p].opts, procs[p].opts.cursor))} :
              IF pg.t = "throw"
              THEN Finish(p, Throw(ValidationError(Words(pg.msg))))
              ELSE IF pg.pageUids = <<>>
              THEN Finish(p, Ok(<<>>, pg.nextCursor))
              ELSE /\ procs' = [procs EXCEPT ![p].paged = pg,
                                             ![p].pc = "fetch"]
                   /\ clients' = clients
  /\ UNCHANGED <<cursorVars, pageVars, opsVars, inflight, clamp, store, snip,
               tool, ncalls>>

\* for await (... client.fetch(uids, ...)), sortEnvelopes, return
PairFetch(p) ==
  /\ procs[p].pc = "fetch"
  /\ \E c \in {procs[p].client} :
       IF clients[c].state # "open"
       THEN Finish(p, Throw(ConnectionLost))
       ELSE \E fetched \in FetchYields(
                             FetchByUids(store[clients[c].selected].uids,
                                         procs[p].paged.pageUids)) :
              Finish(p, Ok(sortEnvelopes(fetched, procs[p].opts.sort),
                           procs[p].paged.nextCursor))
  /\ UNCHANGED <<cursorVars, pageVars, opsVars, inflight, clamp, store, snip,
               tool, ncalls>>

\* await safeLogout(client), then the caller's try/catch: run() once more
\* after a connection error of the first attempt
PairLogout(p) ==
  /\ procs[p].pc = "logout"
  /\ clients' = [clients EXCEPT ![procs[p].client].state = "closed"]
  /\ IF /\ procs[p].out.t = "throw"
        /\ isConnectionError(procs[p].out.err)
        /\ procs[p].attempt = 1
     THEN procs' = [procs EXCEPT ![p].pc = "call", ![p].out = NoOut,
                                 ![p].paged = NoPage]
     ELSE procs' = [procs EXCEPT ![p].pc = "done"]
  /\ UNCHANGED <<cursorVars, pageVars, opsVars, inflight, clamp, store, snip,
               tool, ncalls>>

NextPair ==
  \/ \E p \in DOMAIN procs : PairRun(p)
  \/ \E p \in DOMAIN procs : PairConnect(p)
  \/ \E p \in DOMAIN procs : PairLock(p)
  \/ \E p \in DOMAIN procs : PairSearch(p)
  \/ \E p \in DOMAIN procs : PairFetch(p)
  \/ \E p \in DOMAIN procs : PairLogout(p)

SpecPair == InitPair /\ [][NextPair]_vars

\* what searchMailPage returns for an input when it runs alone on the store
Alone(input) ==
  With(resolveListOptions(input.options, ListDefaultLimit), LAMBDA o :
    With(SearchStart(input.criteria, o), LAMBDA start :
      IF start.t = "throw" THEN Throw(start.err)
      ELSE With(paginateUids(StoreSearch(store[input.mailbox], start.todo[1]),
                             PageInput(o, o.cursor)), LAMBDA pg :
             IF pg.t = "throw" THEN Throw(ValidationError(Words(pg.msg)))
             ELSE Ok(sortEnvelopes(FetchByUids(store[input.mailbox].uids,
                                               pg.pageUids), o.sort),
                     pg.nextCursor))))

\* no client is used by two calls, and a lock is on the holder's own client
OwnClientAndLock ==
  /\ \A p, q \in DOMAIN procs :
       p # q /\ procs[p].client # 0 => procs[p].client # procs[q].client
  /\ \A c \in DOMAIN clients :
       /\ Cardinality(clients[c].users) <= 1
       /\ clients[c].lockedBy # 0 => procs[clients[c].lockedBy].client = c

\* C30: two calls running side by side, interleaved at every await, each
\* create and use their own client and their own mailbox lock, and each
\* returns, at its first attempt, the result it returns when it runs alone
\* against the same unchanged store.
C30_Isolated ==
  /\ OwnClientAndLock
  /\ \A p \in DOMAIN procs :
       procs[p].pc = "done" =>
         /\ procs[p].out = Alone(procs[p].input)
         /\ procs[p].attempt = 1

\* the second call has run from start to end, on another mailbox and with
\* another result, while the first, started before it, holds its lock and
\* waits for its fetch
C30_Witness ==
  /\ Len(procs) = 2
  /\ procs[1].pc = "fetch" /\ procs[1].client = 1
  /\ clients[1].lockedBy = 1
  /\ procs[2].pc = "done" /\ procs[2].client = 2
  /\ procs[2].input.mailbox # procs[1].input.mailbox
  /\ procs[2].out.t = "ok" /\ procs[2].out.items # <<>>
  /\ procs[2].out = Alone(procs[2].input)
  /\ Alone(procs[1].input) # Alone(procs[2].input)


(***************************************************************************)
(* Snippets: query.ts toSnippet, imap.ts parsedToBodyText and              *)
(* envelopeWithOptionalSnippet.  A text is a sequence of character codes.  *)
(***************************************************************************)
\* longest body text and largest snippetLength enumerated
MaxBody == 4
MaxSnippet == 3

\* "\n[... truncated]"
TruncatedMark ==
  <<10, 91, 46, 46, 46, 32, 116, 114, 117, 110, 99, 97, 116, 101, 100, 93>>
\* "..."
Ellipsis == <<46, 46, 46>>

RECURSIVE CollapseWhite(_)
\* text.replace(/\s+/g, " ")
CollapseWhite(text) ==
  With(text, LAMBDA s :
    IF s = <<>> THEN <<>>
    ELSE IF ~IsWhite(s[1]) THEN <<s[1]>> \o CollapseWhite(Tail(s))
    ELSE IF Len(s) > 1 /\ IsWhite(s[2]) THEN CollapseWhite(Tail(s))
    ELSE <<32>> \o CollapseWhite(Tail(s)))

\* the index of the ">" that closes a tag opened at s[1], or 0: /<[^>]+>/
TagEnd(s) ==
  IF s # <<>> /\ s[1] = 60
     /\ \E j \in 3..Len(s) : s[j] = 62 /\ \A k \in 2..(j - 1) : s[k] # 62
  THEN CHOOSE j \in 3..Len(s) : s[j] = 62 /\ \A k \in 2..(j - 1) : s[k] # 62
  ELSE 0

RECURSIVE StripTags(_)
\* html.replace(/<[^>]+>/g, " ")
StripTags(html) ==
  With(html, LAMBDA s :
    IF s = <<>> THEN <<>>
    ELSE With(TagEnd(s), LAMBDA j :
           IF j > 0 THEN <<32>> \o StripTags(SubSeq(s, j + 1, Len(s)))
           ELSE <<s[1]>> \o StripTags(Tail(s))))

\* parsed.text ?? "", else the html with its tags stripped
BodyOf(parsed) ==
  IF parsed.text = <<>> /\ parsed.html # <<>>
  THEN Trim(CollapseWhite(StripTags(parsed.html)))
  ELSE parsed.text

\* parsedToBodyText(parsed, maxLength)
parsedToBodyText(parsed, maxLength) ==
  With(BodyOf(parsed), LAMBDA text :
    IF maxLength > 0 /\ Len(text) > maxLength
    THEN SliceTo(text, maxLength) \o TruncatedMark
    ELSE text)

\* toSnippet(text, maxLength)
toSnippet(text, maxLength) ==
  With(Trim(CollapseWhite(text)), LAMBDA normalized :
    IF maxLength <= 0 \/ Len(normalized) <= maxLength THEN normalized
    ELSE SliceTo(normalized, maxLength) \o Ellipsis)

\* the characters of a message body: a letter, a blank, a line break
BodyAlphabet == {97, 32, 10}
\* the characters of an html part: < > and a letter
HtmlAlphabet == {60, 62, 97}

\* what simpleParser gives for a fetched source: a text part, or an html part
ParsedMails ==
  [text : SeqsUpTo(BodyAlphabet, MaxBody), html : {<<>>}]
    \cup [text : {<<>>}, html : SeqsUpTo(HtmlAlphabet, MaxBody)]

InitSnippet ==
  /\ CursorIdle /\ PageIdle /\ OpsIdle
  /\ inflight = {} /\ procs = <<>> /\ clients = <<>> /\ clamp = NoClamp
  /\ store = NoStore /\ tool = NoTool
  /\ ncalls = 0
  /\ snip \in [t : {"fetched"}, parsed : ParsedMails, source : BOOLEAN,
               includeSnippet : BOOLEAN, snippetLength : 0..MaxSnippet,
               has : {FALSE}, snippet : {<<>>}]

\* envelopeWithOptionalSnippet(msg, includeSnippet, snippetLength)
MakeEnvelope ==
  /\ snip.t = "fetched"
  /\ IF snip.includeSnippet /\ snip.source
     THEN snip' = [snip EXCEPT
            !.t = "envelope", !.has = TRUE,
            !.snippet = toSnippet(parsedToBodyText(snip.parsed,
                                                   snip.snippetLength),
                                  snip.snippetLength)]
     ELSE snip' = [snip EXCEPT !.t = "envelope"]
  /\ UNCHANGED <<cursorVars, pageVars, opsVars>>
  /\ UNCHANGED <<inflight, procs, clients, clamp, store, tool, ncalls>>

NextSnippet == MakeEnvelope

SpecSnippet == InitSnippet /\ [][NextSnippet]_vars

\* no blank at either end, no line break, no two blanks in a row
WhitespaceNormalised(text) ==
  /\ \A i \in 1..Len(text) : IsWhite(text[i]) => text[i] = 32
  /\ \A i \in 1..(Len(text) - 1) : ~(text[i] = 32 /\ text[i + 1] = 32)
  /\ text # <<>> => text[1] # 32 /\ text[Len(text)] # 32

\* the snippet is k characters from the start of the normalised body, with or
\* without "..." after them
BodyThenEllipsis(text, body, k) ==
  /\ k <= Len(body)
  /\ text \in {SubSeq(body, 1, k), SubSeq(body, 1, k) \o Ellipsis}

\* C31: when includeSnippet is true, every returned snippet is
\* whitespace-normalised and holds at most snippetLength characters of body
\* text followed by at most a three-character ellipsis, for every
\* snippetLength >= 0.
C31_SnippetBounded ==
  (snip.t = "envelope" /\ snip.has) =>
    /\ WhitespaceNormalised(snip.snippet)
    /\ \E k \in 0..snip.snippetLength :
         BodyThenEllipsis(snip.snippet,
                          Trim(CollapseWhite(BodyOf(snip.parsed))), k)


(***************************************************************************)
(* A chain of paginateUids calls over a match set that changes between the *)
(* calls: mail arrives and disappears.                                     *)
(***************************************************************************)
\* what the store may match at a call: any set of uids, in either order
DriftMatches ==
  {AscOf(S) : S \in SUBSET (1..MaxUid)}
    \cup {Reverse(AscOf(S)) : S \in SUBSET (1..MaxUid)}

InitDrift ==
  /\ CursorIdle /\ OpsIdle /\ MoreIdle
  /\ ppc = "start"
  /\ matched \in DriftMatches
  /\ pin \in [cursor : {<<>>}, limit : {JsNum(1), JsNum(2)},
              maxResults : {Undefined}, sort : SortInputs]
  /\ page = NoPage
  /\ items = <<>>
  /\ chain = TRUE
  /\ again = NoPage

\* the first call of the chain: no cursor
DriftFirst ==
  /\ ppc = "start"
  /\ page' = paginateUids(matched, pin)
  /\ items' = page'.pageUids
  /\ ppc' = "paged"
  /\ UNCHANGED <<matched, pin, chain, again>>
  /\ UNCHANGED <<cursorVars, opsVars, moreVars>>

\* the next call: the previous page's nextCursor, and whatever the store
\* matches by now
DriftFollow ==
  /\ ppc = "paged"
  /\ page.t = "ok"
  /\ page.nextCursor # <<>>
  /\ matched' \in DriftMatches
  /\ pin' = [pin EXCEPT !.cursor = page.nextCursor]
  /\ page' = paginateUids(matched', pin')
  /\ items' = items \o page'.pageUids
  /\ UNCHANGED <<ppc, chain, again>>
  /\ UNCHANGED <<cursorVars, opsVars, moreVars>>

NextDrift == DriftFirst \/ DriftFollow

SpecDrift == InitDrift /\ [][NextDrift]_vars

\* uid u lies past the boundary a cursor stands for; no cursor, no boundary
PastBoundary(u, cursor, dir) ==
  \/ cursor = <<>>
  \/ cursor # <<>> /\ Before(decodeCursor(cursor).n, u, dir)

\* everything returned so far is strictly monotone in the direction
DriftMonotone ==
  ppc = "paged" => StrictlyOrdered(items, DirectionOf(pin.sort))

\* a call returns, or leaves past its new boundary, every uid matched at the
\* call that is past the boundary the call was made with; the last page of
\* the chain returns them all
ServedOrOwed ==
  page' # page =>
    /\ page'.t = "ok"
    /\ \A u \in Range(matched') :
         PastBoundary(u, pin'.cursor, DirectionOf(pin'.sort)) =>
           \/ u \in Range(page'.pageUids)
           \/ /\ page'.nextCursor # <<>>
              /\ PastBoundary(u, page'.nextCursor, DirectionOf(pin'.sort))
              /\ u \notin Range(items')

\* C32: across a chain of paginateUids calls in one direction, each with the
\* nextCursor of the page before and an arbitrarily different match set, the
\* concatenated items are strictly monotone in that direction (no uid is
\* returned twice), and every uid past the current boundary that stays in the
\* match set is returned by a later page.
C32_DriftingChain == []DriftMonotone /\ [][ServedOrOwed]_vars

\* two pages, oldest first: uid 1, then uid 3 from a match set that has
\* lost uids 1 and 2
C32_Witness ==
  /\ ppc = "paged"
  /\ pin.cursor = encodeCursor(1)
  /\ pin.sort = "asc"
  /\ items = <<1, 3>>
  /\ matched = <<3>>


(***************************************************************************)
(* The length of a cursor chain over a fixed match set.                    *)
(***************************************************************************)
InitChain ==
  /\ CursorIdle /\ OpsIdle
  /\ inflight = {} /\ procs = <<>> /\ clients = <<>> /\ clamp = NoClamp
  /\ store = NoStore /\ snip = NoSnip /\ tool = NoTool
  /\ ncalls = 0
  /\ ppc = "start"
  /\ matched \in SeqsUpTo(UidValues, MaxLen)
  /\ pin \in [cursor : {<<>>}, limit : LimitInputs,
              maxResults : MaxResultsInputs, sort : SortInputs]
  /\ page = NoPage
  /\ items = <<>>
  /\ chain = TRUE
  /\ again = NoPage

\* the first call of the chain: no cursor
ChainFirst ==
  /\ ppc = "start"
  /\ page' = paginateUids(matched, pin)
  /\ items' = page'.pageUids
  /\ ppc' = "paged"
  /\ ncalls' = 1
  /\ UNCHANGED <<matched, pin, chain, again>>
  /\ UNCHANGED <<cursorVars, opsVars>>
  /\ UNCHANGED <<inflight, procs, clients, clamp, store, snip, tool>>

\* the next call of the chain, on the same match set
ChainFollow ==
  /\ ppc = "paged"
  /\ page.t = "ok"
  /\ page.nextCursor # <<>>
  /\ pin' = [pin EXCEPT !.cursor = page.nextCursor]
  /\ page' = paginateUids(matched, pin')
  /\ items' = items \o page'.pageUids
  /\ ncalls' = ncalls + 1
  /\ UNCHANGED <<ppc, matched, chain, again>>
  /\ UNCHANGED <<cursorVars, opsVars>>
  /\ UNCHANGED <<inflight, procs, clients, clamp, store, snip, tool>>

NextChain == ChainFirst \/ ChainFollow

SpecChain == InitChain /\ [][NextChain]_vars

\* ceil(n / d), d > 0
CeilDiv(n, d) == (n + d - 1) \div d

\* max(1, ceil(|S'| / limit)), S' the distinct positive members of the match
ExpectedCalls ==
  Max(1, CeilDiv(Cardinality({u \in Range(matched) : u > 0}),
                 EffectiveLimit(pin)))

\* C33: every page that carries a nextCursor is non-empty and its cursor is
\* strictly past the boundary the page was computed from, so on a fixed
\* match set S the chain started without a cursor reaches a page without
\* nextCursor after exactly max(1, ceil(|S'| / limit)) calls, S' being the
\* distinct positive members of S.
C33_ChainTerminates ==
  ppc = "paged" =>
    /\ page.t = "ok"
    /\ page.nextCursor # <<>> =>
         /\ page.pageUids # <<>>
         /\ PastBoundary(decodeCursor(page.nextCursor).n, pin.cursor,
                         DirectionOf(pin.sort))
         /\ ncalls < ExpectedCalls
    /\ page.nextCursor = <<>> => ncalls = ExpectedCalls

\* three uids, one a page: the third call ends the chain
C33_Witness ==
  /\ ppc = "paged"
  /\ page.nextCursor = <<>>
  /\ ncalls = 3
  /\ Len(items) = 3


(***************************************************************************)
(* One client and one lock at a time within a call.                        *)
(***************************************************************************)
\* the attempts whose client has been asked to connect and not yet to log out
OpenClients ==
  {a \in 1..2 : CountIn(a, "connect") >= 1 /\ CountIn(a, "logout") = 0}

\* every call of the first attempt precedes every call of the second, and
\* within an attempt the release precedes the logout
CallsInOrder ==
  /\ \A i \in 1..(Len(calls) - 1) : calls[i].att <= calls[i + 1].att
  /\ \A j \in 1..Len(calls) :
       calls[j].name = "logout" =>
         \A i \in 1..Len(calls) :
           (calls[i].att = calls[j].att /\ calls[i].name = "release")
             => i < j

\* C34: at every point of a call at most one client is connected and at most
\* one mailbox lock is held; on a retry the first attempt's release and
\* logout are over before the second attempt creates and connects its
\* client, and within an attempt the lock is released before the logout.
C34_OneClientOneLock ==
  /\ held \in {0, 1}
  /\ Cardinality(OpenClients) <= 1
  /\ CallsInOrder
  /\ CountIn(attempt, "logout") >= 1 => held = 0
  /\ CountIn(2, "getClient") >= 1 =>
       /\ CountIn(1, "logout") = 1
       /\ CountIn(2, "getMailboxLock") = 0 => held = 0

\* the second attempt holds its lock; the first attempt had held one too and
\* released it, and has logged out
C34_Witness ==
  /\ attempt = 2
  /\ held = 1
  /\ OpenClients = {2}
  /\ CountIn(1, "release") = 1
  /\ CountIn(1, "logout") = 1


(***************************************************************************)
(* listMessagesPage called again and again on a mailbox that does not      *)
(* change, each call with the nextCursor of the page before.               *)
(***************************************************************************)
\* what one call of listMessagesPage returns when no store call fails
ListPageOf(mailbox, options) ==
  With(resolveListOptions(options, ListDefaultLimit), LAMBDA o :
    With(ListStart(o, Cardinality(mailbox)), LAMBDA start :
      CASE start.t = "throw" -> Throw(start.err)
        [] start.t = "return" -> Ok(<<>>, <<>>)
        [] start.t = "range" ->
             With(sortEnvelopes(FetchBySeq(mailbox, start.todo[1].lo,
                                           start.todo[1].hi), o.sort),
                  LAMBDA sorted :
               Ok(sorted, FastPathCursor(Cardinality(mailbox), o.limit,
                                         sorted)))
        [] OTHER ->
             With(paginateUids(
                    ArrayOrEmpty(CHOOSE r \in SearchReplies(mailbox,
                                                            start.todo[1]) :
                                   TRUE),
                    PageInput(o, start.cursor)), LAMBDA pg :
               IF pg.t = "throw" THEN Throw(ValidationError(Words(pg.msg)))
               ELSE Ok(sortEnvelopes(FetchByUids(mailbox, pg.pageUids),
                                     o.sort), pg.nextCursor))))

ListChainOptions ==
  [cursor : {<<>>}, limit : {Undefined, JsNum(1), JsNum(2)},
   maxResults : {Undefined}, sort : SortInputs]

InitListChain ==
  /\ CursorIdle /\ OpsIdle
  /\ inflight = {} /\ procs = <<>> /\ clients = <<>> /\ clamp = NoClamp
  /\ snip = NoSnip /\ tool = NoTool
  /\ ncalls = 0
  /\ ppc = "start"
  /\ matched = <<>> /\ page = NoPage /\ chain = TRUE /\ again = NoPage
  /\ items = <<>>
  /\ pin \in ListChainOptions
  /\ store \in {[m \in {"INBOX"} |-> [uids |-> S, unseen |-> {}]] :
                  S \in SUBSET (1..MaxUid)}

\* listMessagesPage(config, "INBOX", options) without a cursor
ListFirst ==
  /\ ppc = "start"
  /\ out' = ListPageOf(store["INBOX"].uids, pin)
  /\ items' = out'.items
  /\ ppc' = "paged"
  /\ ncalls' = 1
  /\ UNCHANGED <<cursorVars, matched, pin, page, chain, again, store>>
  /\ UNCHANGED <<opc, req, opts, attempt, calls, todo, acc, pgin, paged, caught,
                 faults, held, flagged, replies, compiled>>
  /\ UNCHANGED <<inflight, procs, clients, clamp, snip, tool>>

\* listMessagesPage with the nextCursor of the page before
ListFollow ==
  /\ ppc = "paged"
  /\ out.t = "ok"
  /\ out.nextCursor # <<>>
  /\ pin' = [pin EXCEPT !.cursor = out.nextCursor]
  /\ out' = ListPageOf(store["INBOX"].uids, pin')
  /\ items' = items \o out'.items
  /\ ncalls' = ncalls + 1
  /\ UNCHANGED <<cursorVars, ppc, matched, page, chain, again, store>>
  /\ UNCHANGED <<opc, req, opts, attempt, calls, todo, acc, pgin, paged, caught,
                 faults, held, flagged, replies, compiled>>
  /\ UNCHANGED <<inflight, procs, clients, clamp, snip, tool>>

NextListChain == ListFirst \/ ListFollow

SpecListChain == InitListChain /\ [][NextListChain]_vars

\* the limit listMessagesPage resolves the options to
ListLimit == resolveListOptions(pin, ListDefaultLimit).limit

\* C35: in a static mailbox, following nextCursor from a cursor-less
\* listMessagesPage call returns every message of the mailbox exactly once,
\* in uid order of the chosen direction, and the chain ends with a page
\* that has no nextCursor; the first page has a nextCursor exactly when the
\* mailbox holds more messages than the limit.
C35_ListChainComplete ==
  ppc = "paged" =>
    /\ out.t = "ok"
    /\ StrictlyOrdered(items, DirectionOf(pin.sort))
    /\ Range(items) \subseteq store["INBOX"].uids
    /\ out.nextCursor # <<>> => out.items # <<>>
    /\ out.nextCursor = <<>> => Range(items) = store["INBOX"].uids
    /\ ncalls <= Max(1, Cardinality(store["INBOX"].uids))
    /\ ncalls = 1 =>
         (out.nextCursor # <<>> <=>
            Cardinality(store["INBOX"].uids) > ListLimit)

\* three messages, newest first, one a page: the third call ends the chain
C35_Witness ==
  /\ ppc = "paged"
  /\ DirectionOf(pin.sort) = "desc"
  /\ ncalls = 3
  /\ items = <<3, 2, 1>>
  /\ out.nextCursor = <<>>


(***************************************************************************)
(* A logout that fails.                                                    *)
(***************************************************************************)
\* the step is a logout, and one that the store fails
LogoutFails == opc = "logout" /\ opc' = "settle" /\ faults' = faults + 1

\* a failing logout leaves the result or error of the attempt, the attempt
\* number and the error caught before as they are
FailedLogoutChangesNothing ==
  LogoutFails => out' = out /\ attempt' = attempt /\ caught' = caught

\* a second attempt is started only for an error that the body of the first
\* attempt ended with, and the operation ends with what its last attempt
\* had before its logout
RetryIsForTheBody ==
  /\ (attempt = 1 /\ attempt' = 2) =>
       /\ opc = "settle"
       /\ out.t = "throw"
       /\ isConnectionError(out.err)
  /\ (opc = "settle" /\ opc' = "done") => out' = out

\* C36: a failure of logout is swallowed: it never replaces the operation's
\* result on success, never replaces the original error on failure, and
\* never by itself causes a retry.
C36_LogoutSwallowed ==
  [][FailedLogoutChangesNothing /\ RetryIsForTheBody]_vars

\* the only store call that failed is the logout, and the operation has
\* returned its result at the first attempt
C36_Witness ==
  /\ opc = "done"
  /\ out.t = "ok"
  /\ out.items # <<>>
  /\ faults = 1
  /\ attempt = 1


(***************************************************************************)
(* The precedence of the validation errors of searchMailAdvancedPage.      *)
(***************************************************************************)
\* the rules a criteria object violates
ViolatesReadState(c) == c.seen /\ c.unseen
ViolatesDates(c) == \E i \in 1..Len(DateFields) : Unparsable(c[DateFields[i]])
ViolatesReceived(c) == RangeInverted(c.dateFrom, c.dateTo)
ViolatesSent(c) == RangeInverted(c.sentDateFrom, c.sentDateTo)

\* the error the precedence gives, NoErr when no rule is violated
ErrorByPrecedence(c) ==
  IF ViolatesReadState(c) THEN ValidationError(SeenUnseenMessage)
  ELSE IF ViolatesDates(c)
  THEN ValidationError(InvalidDateMessage(FirstUnparsable(c),
                                          c[FirstUnparsable(c)]))
  ELSE IF ViolatesReceived(c) THEN ValidationError(ReceivedRangeMessage)
  ELSE IF ViolatesSent(c) THEN ValidationError(SentRangeMessage)
  ELSE NoErr

\* C37: validation in searchMailAdvancedPage has a fixed precedence: of
\* several violated rules the error reported is the seen/unseen conflict
\* first, otherwise the first unparsable field in the order date, dateFrom,
\* dateTo, sentDate, sentDateFrom, sentDateTo, otherwise the received-axis
\* range error, otherwise the sent-axis range error; the error depends on
\* the criteria alone.
C37_ErrorPrecedence ==
  Compiled =>
    /\ compiled.err = ErrorByPrecedence(req.criteria)
    /\ compiled.t = "throw" <=> ErrorByPrecedence(req.criteria) # NoErr

\* both ranges are inverted and nothing else is wrong: the received-axis
\* error is the one reported
C37_Witness ==
  /\ Compiled
  /\ ViolatesReceived(req.criteria)
  /\ ViolatesSent(req.criteria)
  /\ ~ViolatesReadState(req.criteria)
  /\ ~ViolatesDates(req.criteria)
  /\ compiled.err = ValidationError(ReceivedRangeMessage)


(***************************************************************************)
(* queryByFolderPage: one search per field.                                *)
(***************************************************************************)
FolderFields == {"subject", "body", "from", "to"}

\* the distinct valid fields of a request
ValidFields(fields) == Range(fields) \cap FolderFields

\* queryByFolderPage has paginated
FolderPaged == req.op = "folder" /\ paged.t # "none"

\* C38: queryByFolderPage issues exactly one search per distinct valid field
\* (subject, body, from, to), one after another, and paginates the union of
\* their results, so a uid matched by several fields appears once in the
\* output and a field listed twice is searched once.
C38_OneSearchPerField ==
  /\ FolderPaged =>
       \E searches \in {SearchesOf(attempt)} :
         /\ Len(searches) = Cardinality(ValidFields(req.fields))
         /\ {searches[i].field : i \in 1..Len(searches)}
              = ValidFields(req.fields)
         /\ \A i \in 1..Len(searches) :
              searches[i] = [k |-> "field", field |-> searches[i].field,
                             q |-> Trim(req.q)]
         /\ Len(replies) = Len(searches)
         /\ Range(acc) = Returned
         /\ Cardinality(Range(acc)) = Len(acc)
         /\ paged = paginateUids(acc, PageInput(opts, opts.cursor))
  /\ (req.op = "folder" /\ opc = "done" /\ out.t = "ok") =>
       Cardinality(Range(out.items)) = Len(out.items)

\* subject is listed twice next to body: two searches, both matching uid 2,
\* which is returned once
C38_Witness ==
  /\ FolderPaged
  /\ opc = "done"
  /\ req.fields = <<"subject", "body", "subject">>
  /\ Len(SearchesOf(attempt)) = 2
  /\ replies = <<<<2>>, <<2>>>>
  /\ out.t = "ok"
  /\ out.items = <<2>>


(***************************************************************************)
(* The tool handlers that take a uid: mail_get_message,                    *)
(* mail_list_attachments, mail_get_thread_context.                         *)
(***************************************************************************)
\* a string that is not the text of a number
JsText == [t |-> "text", n |-> 0, d |-> 1]

\* Number(v)
ToNumber(v) ==
  CASE v.t = "undef" -> NaNValue
    [] v.t = "text" -> NaNValue
    [] v.t = "str" -> JsNum(v.n)
    [] OTHER -> v

\* !v for a number: 0 and NaN
Falsy(v) == v.t = "nan" \/ (v.t = "num" /\ v.n = 0)

UidTools ==
  {"mail_get_message", "mail_list_attachments", "mail_get_thread_context"}

\* the uid arguments a caller may send: none, text, the text of a number,
\* integers from -1 up, fractions
UidArguments ==
  {Undefined, JsText, JsString(1), JsFrac(1, 2), JsFrac(5, 2),
   JsFrac(-5, 2)}
    \cup {JsNum(n) : n \in (-1)..MaxUid}

\* "Error: uid must be a number"
UidErrorText == "Error: uid must be a number"

InitTool ==
  /\ CursorIdle /\ PageIdle /\ OpsIdle
  /\ inflight = {} /\ procs = <<>> /\ clients = <<>> /\ clamp = NoClamp
  /\ store = NoStore /\ snip = NoSnip
  /\ ncalls = 0
  /\ tool \in [t : {"request"}, name : UidTools, uid : UidArguments,
               mailbox : {"", "INBOX"}, passed : {<<>>}, text : {""},
               isError : {FALSE}]

\* the handler up to the call of the imap function: const uid =
\* Number(a.uid); if (!uid) return the error
Handle ==
  /\ tool.t = "request"
  /\ \E uid \in {ToNumber(tool.uid)} :
       IF Falsy(uid)
       THEN tool' = [tool EXCEPT !.t = "replied", !.text = UidErrorText,
                                 !.isError = TRUE]
       ELSE tool' = [tool EXCEPT !.t = "called", !.passed = <<uid>>]
  /\ UNCHANGED <<cursorVars, pageVars, opsVars>>
  /\ UNCHANGED <<inflight, procs, clients, clamp, store, snip, ncalls>>

\* the imap function returns the message, or null, and the handler replies
Answer ==
  /\ tool.t = "called"
  /\ \E found \in BOOLEAN :
       tool' = [tool EXCEPT !.t = "replied",
                            !.text = IF found THEN "message"
                                     ELSE "Message not found",
                            !.isError = ~found]
  /\ UNCHANGED <<cursorVars, pageVars, opsVars>>
  /\ UNCHANGED <<inflight, procs, clients, clamp, store, snip, ncalls>>

NextTool == Handle \/ Answer

SpecTool == InitTool /\ [][NextTool]_vars

\* a positive integer
IsPositiveInteger(v) == IsInteger(v) /\ v.n > 0

\* what the check  if (!uid)  does: the imap function is called exactly
\* with the numbers other than 0 and NaN, and the rest get the error
RejectsZeroAndNaN ==
  /\ \A i \in 1..Len(tool.passed) : ~Falsy(tool.passed[i])
  /\ tool.t = "replied" =>
       (Falsy(ToNumber(tool.uid)) <=>
          (tool.passed = <<>> /\ tool.text = UidErrorText /\ tool.isError))

\* C39: the tools mail_get_message, mail_list_attachments and
\* mail_get_thread_context reach the store only with a uid that is a
\* positive integer: every other uid argument (missing, non-numeric, zero,
\* negative, fractional) yields the error 'uid must be a number' without
\* any store call.
C39_PositiveUidOnly ==
  /\ \A i \in 1..Len(tool.passed) : IsPositiveInteger(tool.passed[i])
  /\ (tool.t = "replied" /\ ~IsPositiveInteger(ToNumber(tool.uid))) =>
       /\ tool.passed = <<>>
       /\ tool.isError
       /\ tool.text = UidErrorText

====
